---------------------------- MODULE Spec2Model ----------------------------
(***************************************************************************)
(* Model of the Math_Simple_Interpreter pipeline:                          *)
(*   tokenize -> parse -> evaluate_expression over a chained hash table    *)
(*   (symbolTable.c, parser.c, instruction.c).                             *)
(*                                                                         *)
(* Characters are one-character strings, a line is a sequence of them.     *)
(* An mpfr_t value is a record [k, n, d]: an exact binary rational n/d     *)
(* with d a power of two ("num"), NaN ("nan"), an infinity of sign n       *)
(* ("inf"), or a value the model does not track ("approx": a result that   *)
(* 256 bits cannot hold exactly, one whose numerator or denominator passes *)
(* ValLimit, or one computed from such a value).  Rounding to nearest at   *)
(* 256 bits is the identity on the tracked values; nothing is asserted     *)
(* about an untracked one.                                                 *)
(*                                                                         *)
(* Allocation: a line is processed under one outcome of the allocator      *)
(* (MemOutcomes): every request is granted and realloc extends in place,   *)
(* realloc of the scratch pool moves the block, realloc of the scratch     *)
(* pool fails, or malloc of a new Symbol fails.  The token buffer and the   *)
(* node arena are taken to grow without failure.                           *)
(***************************************************************************)
EXTENDS Integers, Sequences, FiniteSets, TLC

VARIABLES
    table,      \* SymbolTable: [buckets, capacity, count]
    bindings,   \* history: name -> value last passed to symbol_table_insert
    heapView,   \* what freed Symbol memory reads as, fixed by the first free
    crashed,    \* the process faulted on a read of freed memory
    lastOp,     \* label of the last operation that ran
    cleared,    \* history: symbol_table_empty has run
    resizes,    \* history: number of symbol_table_resize calls that rehashed
    nextName,   \* index of the next fresh name of the insert-only harnesses
    updates,    \* number of re-assignments made by the insert-only harness
    line,       \* app->buffer: the current input line
    out,        \* what the last iteration of the main loop did and produced
    app,        \* App and the sizes of its buffers: [run, result, tokSize,
                \* arenaSize, poolSize]
    reads       \* number of lines the main loop has read

vars == <<table, bindings, heapView, crashed, lastOp, cleared, resizes,
          nextName, updates, line, out, app, reads>>

---------------------------------------------------------------------------
(* Bounds of the model *)

\* names the insert-only harness may insert (one resize needs 40)
MaxNames == 41
\* re-assignments the insert-only harness may make
MaxUpdates == 1
\* names the fill harness inserts (a second resize needs 78)
MaxFill == 79
\* magnitude past which a numerator or denominator is no longer tracked
ValLimit == 20000
\* symbol_table_empty calls the table machine may make
MaxClears == 1
\* operators in the generated expression lines
MaxOps == 2
\* lines the read-eval loop reads
MaxLines == 4
\* lines the whole program reads
MaxServed == 3
\* words of a generated statement line
MaxWords == 4
\* characters of a generated line of the tokenizer
MaxChars == 4
\* how far past TOKEN_LEXEME_LEN_LIMIT the generated runs go
MaxOver == 2
\* times "+1" is added to a generated long statement
MaxSum == 8

---------------------------------------------------------------------------
(* Program constants *)

SYMBOL_MAP_BASE_SIZE == 64
\* THRESHOLD_MAP is 0.6, kept as the fraction THRESHOLD_NUM / THRESHOLD_DEN
THRESHOLD_NUM == 6
THRESHOLD_DEN == 10
TOKEN_BUFFER_SIZE == 128
TOKEN_LEXEME_LEN_LIMIT == 255
MPRF_BUFFER_SIZE == 128

---------------------------------------------------------------------------
(* Characters *)

Lower == <<"a","b","c","d","e","f","g","h","i","j","k","l","m",
           "n","o","p","q","r","s","t","u","v","w","x","y","z">>
Upper == <<"A","B","C","D","E","F","G","H","I","J","K","L","M",
           "N","O","P","Q","R","S","T","U","V","W","X","Y","Z">>
DigitChars == <<"0","1","2","3","4","5","6","7","8","9">>

IndexIn(seq, c) == CHOOSE i \in 1..Len(seq) : seq[i] = c
InSeq(seq, c) == \E i \in 1..Len(seq) : seq[i] = c

\* isdigit
IsDigit(c) == InSeq(DigitChars, c)
DigitVal(c) == IndexIn(DigitChars, c) - 1

\* lookupTable[]: set for 'a'..'z', 'A'..'Z' and '_' by token_buffer_create
IsNameChar(c) == InSeq(Lower, c) \/ InSeq(Upper, c) \/ c = "_"

\* isspace, for the characters a line can hold
IsSpace(c) == c = " "

\* the byte value of a character that can occur in a name; a byte read from
\* freed memory is written "?" and reads as 0
OrdTable ==
    [c \in {Lower[i] : i \in 1..26} \cup {Upper[i] : i \in 1..26} \cup {"_", "?"} |->
        IF InSeq(Lower, c) THEN 96 + IndexIn(Lower, c)
        ELSE IF InSeq(Upper, c) THEN 64 + IndexIn(Upper, c)
        ELSE IF c = "_" THEN 95
        ELSE 0]

Ord(c) == OrdTable[c]

---------------------------------------------------------------------------
(* hash_string: 32-bit FNV-1a, kept as two 16-bit limbs [hi, lo] *)

RECURSIVE Xor8(_, _, _)
Xor8(a, b, bits) ==
    IF bits = 0 THEN 0
    ELSE (((a % 2) + (b % 2)) % 2) + 2 * Xor8(a \div 2, b \div 2, bits - 1)

\* the exclusive or of a byte of the hash with a byte of a name
XorTable == [a \in 0..255 |-> [b \in 0..127 |-> Xor8(a, b, 8)]]

\* hash ^= str[i]: the byte only reaches the low 8 bits
HashXor(h, byte) ==
    [hi |-> h.hi, lo |-> (h.lo - (h.lo % 256)) + XorTable[h.lo % 256][byte]]

\* hash *= 16777619 (0x01000193 = 2^24 + 403), modulo 2^32
HashMul(h) ==
    LET lo403 == h.lo * 403
    IN  [hi |-> (h.hi * 403 + (lo403 \div 65536) + (h.lo % 256) * 256) % 65536,
         lo |-> lo403 % 65536]

\* 2166136261 = 0x811C9DC5
HashSeed == [hi |-> 33052, lo |-> 40389]

\* the loop over str[i..len], one half of the range after the other (a limb
\* is below 2^16)
RECURSIVE HashFrom(_, _, _, _)
HashFrom(h, str, i, len) ==
    IF i > len \/ h.lo >= 65536 THEN h
    ELSE IF i = len THEN HashMul(HashXor(h, Ord(str[i])))
    ELSE HashFrom(HashFrom(h, str, i, (i + len) \div 2), str, ((i + len) \div 2) + 1, len)

hash_string(str, len) ==
    HashFrom(HashSeed, str, 1, IF len > Len(str) THEN Len(str) ELSE len)

\* hash % capacity, for a capacity the limbs can be reduced by without overflow
HashMod(h, cap) == ((h.hi % cap) * (65536 % cap) + h.lo) % cap

---------------------------------------------------------------------------
(* mpfr_t values *)

RECURSIVE Gcd(_, _)
Gcd(a, b) == IF b = 0 THEN a ELSE Gcd(b, a % b)

Abs(x) == IF x < 0 THEN -x ELSE x

NaN == [k |-> "nan", n |-> 0, d |-> 1]
Approx == [k |-> "approx", n |-> 0, d |-> 1]
Inf(s) == [k |-> "inf", n |-> s, d |-> 1]

\* the denominators of the tracked values
PowersOfTwo == {1, 2, 4, 8, 16, 32, 64, 128, 256, 512, 1024, 2048, 4096, 8192, 16384}

\* the value n/d after rounding to PRECISION_ROUNDING_BITS: tracked when it
\* is a binary rational within ValLimit
Rat(n, d) ==
    IF Abs(n) > ValLimit * ValLimit \/ Abs(d) > ValLimit * ValLimit THEN Approx
    ELSE LET g == Gcd(Abs(n), Abs(d))
             s == IF d < 0 THEN -1 ELSE 1
             nn == (s * n) \div g
             dd == (s * d) \div g
         IN  IF Abs(nn) > ValLimit \/ dd > ValLimit \/ dd \notin PowersOfTwo THEN Approx
             ELSE [k |-> "num", n |-> nn, d |-> dd]

Num(n) == Rat(n, 1)

IsNum(v) == v.k = "num"
\* mpfr_nan_p
IsNaN(v) == v.k = "nan"
\* mpfr_zero_p
IsZero(v) == v.k = "num" /\ v.n = 0
Sign(v) == IF v.n > 0 THEN 1 ELSE IF v.n < 0 THEN -1 ELSE 0


\* mpfr_neg
Neg(v) == IF v.k \in {"num", "inf"} THEN [v EXCEPT !.n = -v.n] ELSE v

\* mpfr_add
MpfrAdd(a, b) ==
    IF IsNaN(a) \/ IsNaN(b) THEN NaN
    ELSE IF a.k = "approx" \/ b.k = "approx" THEN Approx
    ELSE IF a.k = "inf" THEN (IF b.k = "inf" /\ b.n # a.n THEN NaN ELSE a)
    ELSE IF b.k = "inf" THEN b
    ELSE Rat(a.n * b.d + b.n * a.d, a.d * b.d)

\* mpfr_sub
MpfrSub(a, b) == MpfrAdd(a, Neg(b))

\* mpfr_mul
MpfrMul(a, b) ==
    IF IsNaN(a) \/ IsNaN(b) THEN NaN
    ELSE IF a.k = "approx" \/ b.k = "approx" THEN Approx
    ELSE IF a.k = "inf" \/ b.k = "inf"
    THEN (IF IsZero(a) \/ IsZero(b) THEN NaN ELSE Inf(Sign(a) * Sign(b)))
    ELSE Rat(a.n * b.n, a.d * b.d)

\* mpfr_div, for a divisor that is not zero
MpfrDiv(a, b) ==
    IF IsNaN(a) \/ IsNaN(b) THEN NaN
    ELSE IF a.k = "approx" \/ b.k = "approx" THEN Approx
    ELSE IF a.k = "inf" THEN (IF b.k = "inf" THEN NaN ELSE Inf(Sign(a) * Sign(b)))
    ELSE IF b.k = "inf" THEN Num(0)
    ELSE Rat(a.n * b.d, a.d * b.n)

\* x^e by repeated multiplication, for an integer e >= 0 and |x| not 0 or 1
RECURSIVE PowAcc(_, _, _)
PowAcc(acc, x, e) ==
    IF e = 0 \/ acc.k = "approx" THEN acc ELSE PowAcc(MpfrMul(acc, x), x, e - 1)

IsInteger(v) == v.k = "num" /\ v.d = 1
IsOdd(n) == n % 2 = 1

\* mpfr_pow: 1 for a zero exponent or a base of 1 whatever the other
\* operand is (NaN included); NaN for a NaN operand otherwise
MpfrPow(x, y) ==
    IF IsZero(y) THEN Num(1)
    ELSE IF x = Num(1) THEN Num(1)
    ELSE IF IsNaN(x) \/ IsNaN(y) THEN NaN
    ELSE IF x.k # "num" \/ y.k # "num" THEN Approx
    ELSE IF IsZero(x)
    THEN (IF y.n > 0 THEN Num(0)
          ELSE IF IsInteger(y) /\ IsOdd(y.n) THEN Approx ELSE Inf(1))
    ELSE IF ~IsInteger(y) THEN (IF x.n < 0 THEN NaN ELSE Approx)
    ELSE IF x = Num(-1) THEN (IF IsOdd(y.n) THEN Num(-1) ELSE Num(1))
    ELSE IF y.n > 0 THEN PowAcc(Num(1), x, y.n)
    ELSE PowAcc(Num(1), Rat(x.d, x.n), -y.n)

\* the integer square root of n >= 0
RECURSIVE ISqrtIn(_, _, _)
ISqrtIn(n, lo, hi) ==
    IF hi - lo <= 1 THEN lo
    ELSE LET mid == (lo + hi) \div 2
         IN  IF mid * mid <= n THEN ISqrtIn(n, mid, hi) ELSE ISqrtIn(n, lo, mid)
ISqrt(n) == ISqrtIn(n, 0, ValLimit + 1)

\* mpfr_sqrt, for an argument that does not compare below zero
MpfrSqrt(v) ==
    IF IsNaN(v) THEN NaN
    ELSE IF v.k = "approx" THEN Approx
    ELSE IF v.k = "inf" THEN v
    ELSE LET rn == ISqrt(v.n)
             rd == ISqrt(v.d)
         IN  IF rn * rn = v.n /\ rd * rd = v.d THEN Rat(rn, rd) ELSE Approx

\* mpfr_cmp_d(v, 0) < 0: a NaN compares as 0
CmpBelowZero(v) ==
    CASE v.k \in {"num", "inf"} -> v.n < 0
      [] v.k = "nan" -> FALSE
      [] OTHER -> FALSE

\* mpfr_modf(iop, fop, op): iop is the integral part of op (toward zero)
ModfInt(v) ==
    IF v.k = "num"
    THEN (IF v.n >= 0 THEN Num(v.n \div v.d) ELSE Num(-((-v.n) \div v.d)))
    ELSE v

\* mpfr_modf(iop, fop, op): fop is the fractional part of op
ModfFrac(v) ==
    CASE v.k = "num" -> MpfrSub(v, ModfInt(v))
      [] v.k = "inf" -> Num(0)
      [] OTHER -> v

\* the digits of a string as a number, and 10^k
RECURSIVE DigitsValue(_)
DigitsValue(str) ==
    IF Len(str) = 0 THEN 0
    ELSE DigitsValue(SubSeq(str, 1, Len(str) - 1)) * 10 + DigitVal(str[Len(str)])

RECURSIVE Pow10(_)
Pow10(k) == IF k = 0 THEN 1 ELSE 10 * Pow10(k - 1)

AllDigits(str) == \A i \in 1..Len(str) : IsDigit(str[i])

\* mpfr_set_str(rop, str, 10, MPFR_RNDN) on the strings a Number token can
\* give: an optional '-', digits, and at most one more character among the
\* digits.  The string is a number when it has a digit and that character
\* is the decimal point of the C locale, '.'; the status is then 0.
mpfr_set_str(str) ==
    LET neg == Len(str) > 0 /\ str[1] = "-"
        body == IF neg THEN SubSeq(str, 2, Len(str)) ELSE str
        dots == {i \in 1..Len(body) : body[i] = "."}
        ip == IF dots = {} THEN body ELSE SubSeq(body, 1, (CHOOSE i \in dots : TRUE) - 1)
        fp == IF dots = {} THEN <<>>
              ELSE SubSeq(body, (CHOOSE i \in dots : TRUE) + 1, Len(body))
        wellFormed == /\ Cardinality(dots) <= 1
                      /\ AllDigits(ip) /\ AllDigits(fp)
                      /\ Len(ip) + Len(fp) > 0
        mag == IF Len(ip) + Len(fp) > 8 THEN Approx
               ELSE Rat(DigitsValue(ip \o fp), Pow10(Len(fp)))
    IN  IF ~wellFormed THEN [status |-> -1, value |-> NaN]
        ELSE [status |-> 0, value |-> IF neg THEN Neg(mag) ELSE mag]

---------------------------------------------------------------------------
(* Symbol table (symbolTable.c) *)

\* Ways the memory of a freed Symbol can read: unchanged ("intact"), as bytes
\* that match no name while the chain links survive ("garbled"), or the read
\* faults ("fault").  "none": nothing has been freed yet.
HeapViews == {"intact", "garbled", "fault"}

\* a Symbol: name (strdup'ed copy), len, num, and whether it was free()d
Symbol(name, len, num) == [name |-> name, len |-> len, num |-> num, freed |-> FALSE]

\* the name bytes a reader finds in a Symbol
ReadName(sym, view) ==
    IF sym.freed /\ view = "garbled" THEN [i \in 1..Len(sym.name) |-> "?"]
    ELSE sym.name

\* symbol_table_create
symbol_table_create ==
    [buckets |-> [i \in 0..(SYMBOL_MAP_BASE_SIZE - 1) |-> <<>>],
     capacity |-> SYMBOL_MAP_BASE_SIZE,
     count |-> 0]

\* every Symbol in the order the loops of resize, show and empty visit them:
\* bucket by bucket (lo..hi), each chain from its head
RECURSIVE ChainsFrom(_, _, _)
ChainsFrom(t, lo, hi) ==
    IF lo > hi THEN <<>>
    ELSE IF lo = hi THEN t.buckets[lo]
    ELSE LET mid == (lo + hi) \div 2
         IN  ChainsFrom(t, lo, mid) \o ChainsFrom(t, mid + 1, hi)

AllSymbols(t) == ChainsFrom(t, 0, t.capacity - 1)

TouchesFreed(chain) == \E i \in 1..Len(chain) : chain[i].freed

\* the rehash loop of symbol_table_resize: each Symbol, in visiting order, is
\* pushed on the head of its new bucket, so a new chain holds its Symbols in
\* the reverse of the visiting order
Rehash(syms, newCap, view) ==
    LET n == Len(syms)
        idx == [i \in 1..n |->
                  HashMod(hash_string(ReadName(syms[i], view), syms[i].len), newCap)]
        backwards == [i \in 1..n |-> n + 1 - i]
    IN  [b \in 0..(newCap - 1) |->
            LET picks == SelectSeq(backwards, LAMBDA k : idx[k] = b)
            IN  [m \in 1..Len(picks) |-> syms[picks[m]]]]

\* a variant of symbol_table_resize: the chains are carried over to the wider array without rehashing
symbol_table_resize_NoRehash(t, newCap, view) ==
    [buckets |-> [i \in 0..(newCap - 1) |->
                    IF i < t.capacity THEN t.buckets[i] ELSE <<>>],
     capacity |-> newCap,
     count |-> t.count]

\* symbol_table_resize(table, new_capacity)
symbol_table_resize(t, newCap, view) ==
    [buckets |-> Rehash(AllSymbols(t), newCap, view),
     capacity |-> newCap,
     count |-> t.count]

\* a variant of NeedsResize: the load is taken with the entry being inserted counted in
NeedsResize_CountingNew(t) == (t.count + 1) * THRESHOLD_DEN > t.capacity * THRESHOLD_NUM

\* if (table->count > table->capacity * THRESHOLD_MAP)
NeedsResize(t) == t.count * THRESHOLD_DEN > t.capacity * THRESHOLD_NUM

\* position in the chain of the first Symbol with current->len == nameLen and
\* a scan that matches no Symbol
ScanChain_NoMatch(chain, i, name, nameLen, view) == 0

\* strcmp(current->name, name) == 0; 0 when the scan reaches the end
RECURSIVE ScanChain(_, _, _, _, _)
ScanChain(chain, i, name, nameLen, view) ==
    IF i > Len(chain) THEN 0
    ELSE IF chain[i].len = nameLen /\ ReadName(chain[i], view) = name THEN i
    ELSE ScanChain(chain, i + 1, name, nameLen, view)

\* the part of a chain a scan for the name reads
ScannedPart(chain, pos) == IF pos = 0 THEN chain ELSE SubSeq(chain, 1, pos)

\* symbol_table_insert(table, name, num, nameLen): the table after the call
\* and what it returns ("stored": a pointer to the stored value; "fault": the
\* process faulted on freed memory)
symbol_table_insert(t, name, num, nameLen, view) ==
    LET grow == NeedsResize(t)
        t1 == IF grow THEN symbol_table_resize(t, (t.capacity * 2) % 65536, view) ELSE t
        index == HashMod(hash_string(name, nameLen), t1.capacity)
        chain == t1.buckets[index]
        pos == ScanChain(chain, 1, name, nameLen, view)
        touched == \/ (grow /\ TouchesFreed(AllSymbols(t)))
                   \/ TouchesFreed(ScannedPart(chain, pos))
    IN  IF touched /\ view = "fault"
        THEN [table |-> t, ret |-> "fault", resized |-> FALSE]
        ELSE IF pos > 0
        THEN [table |-> [t1 EXCEPT !.buckets[index][pos].num = num],
              ret |-> "stored", resized |-> grow]
        ELSE [table |-> [t1 EXCEPT !.buckets[index] = <<Symbol(name, nameLen, num)>> \o @,
                                   !.count = (@ + 1) % 65536],
              ret |-> "stored", resized |-> grow]

\* a variant of InsertWithoutSymbol: NULL is returned with the new Symbol chained
InsertWithoutSymbol_Chained(t, ins, index) ==
    IF ins.ret = "fault" \/ ins.table.count = t.count THEN ins
    ELSE [ins EXCEPT !.ret = "null"]

\* symbol_table_insert when malloc(sizeof(Symbol)) returns NULL: the resize
\* and the scan of the chain are made as ever and an existing Symbol gets the
\* value; no new Symbol is chained and NULL is returned ("null")
InsertWithoutSymbol(t, ins, index) ==
    IF ins.ret = "fault" \/ ins.table.count = t.count THEN ins
    ELSE [table |-> [ins.table EXCEPT !.buckets[index] = Tail(@), !.count = t.count],
          ret |-> "null", resized |-> ins.resized]

\* what the allocator can do while a line is processed
MemOutcomes == {"plenty", "moves", "pool fails", "symbol fails"}

\* symbol_table_insert under an outcome of the allocator
symbol_table_insert_under(mem, t, name, num, nameLen, view) ==
    IF mem = "symbol fails"
    THEN InsertWithoutSymbol(t, symbol_table_insert(t, name, num, nameLen, view),
                             HashMod(hash_string(name, nameLen),
                                     IF NeedsResize(t) THEN (t.capacity * 2) % 65536
                                     ELSE t.capacity))
    ELSE symbol_table_insert(t, name, num, nameLen, view)

\* symbol_table_get(table, name, nameLen): the table after the call, whether a
\* Symbol was found, and the value the returned pointer designates
symbol_table_get(t, name, nameLen, view) ==
    LET index == HashMod(hash_string(name, nameLen), t.capacity)
        chain == t.buckets[index]
        pos == ScanChain(chain, 1, name, nameLen, view)
    IN  IF TouchesFreed(ScannedPart(chain, pos)) /\ view = "fault"
        THEN [table |-> t, ret |-> "fault", num |-> NaN]
        ELSE IF pos > 0
        THEN [table |-> t, ret |-> "found", num |-> chain[pos].num]
        ELSE [table |-> t, ret |-> "absent", num |-> NaN]

\* symbol_table_empty: mpfr_clear, free(name), free(current) on every Symbol of
\* every chain; the bucket heads, count and capacity are not written
symbol_table_empty(t, view) ==
    IF TouchesFreed(AllSymbols(t)) /\ view = "fault"
    THEN [table |-> t, ret |-> "fault"]
    ELSE [table |-> [t EXCEPT !.buckets =
                        [i \in DOMAIN t.buckets |->
                            [j \in 1..Len(t.buckets[i]) |->
                                [t.buckets[i][j] EXCEPT !.freed = TRUE]]]],
          ret |-> "done"]

\* Symbols that are allocated and reachable through the bucket chains
LiveSymbols(t) ==
    LET all == AllSymbols(t) IN {i \in 1..Len(all) : ~all[i].freed}


---------------------------------------------------------------------------
(* Tokenizer (parser.c) *)

\* a Token: type, lexeme (start: position in the line of its first character,
\* 0 for the constant lexeme of an operator), len and negative
Token(type, start, len) ==
    [type |-> type, start |-> start, len |-> len % 256, negative |-> FALSE]

\* *p, with "" for the terminating NUL
CharAt(buff, p) == IF p >= 1 /\ p <= Len(buff) THEN buff[p] ELSE ""

\* token_buffer_add: the buffer grows by TOKEN_BUFFER_SIZE when it is full
token_buffer_add(tb, tok) ==
    [toks |-> Append(tb.toks, tok),
     size |-> IF Len(tb.toks) >= tb.size THEN tb.size + TOKEN_BUFFER_SIZE ELSE tb.size]

\* where a loop  while (InRun(*p)) p++  stops: the first position from p on
\* that holds no character of the run (the terminating NUL at the latest)
RunEnd(buff, p, InRun(_)) ==
    CHOOSE e \in p..(Len(buff) + 1) :
        ~InRun(CharAt(buff, e)) /\ \A q \in p..(e - 1) : InRun(buff[q])

\* the loop of the digit run: digits and at most one '.' or ','
ScanNumber(buff, p, isFloat) ==
    LET e == RunEnd(buff, p, IsDigit)
    IN  IF ~isFloat /\ CharAt(buff, e) \in {".", ","}
        THEN RunEnd(buff, e + 1, IsDigit) ELSE e

ScanName(buff, p) == RunEnd(buff, p, IsNameChar)

ScanDigits(buff, p) == RunEnd(buff, p, IsDigit)

\* while (*p == ' ') p++
SkipBlanks(buff, p) ==
    LET IsBlank(c) == c = " "
    IN  RunEnd(buff, p, IsBlank)

\* a variant of OperatorType: '$' is taken as one more operator
OperatorType_Dollar(c) ==
    CASE c = "=" -> "ASSING"
      [] c = "+" -> "ADD"
      [] c = "/" -> "DIVIDE"
      [] c = "*" -> "MULT"
      [] c = "(" -> "LPAR"
      [] c = ")" -> "RPAR"
      [] c = "[" -> "LCOR"
      [] c = "]" -> "RCOR"
      [] c = "%" -> "MODULE"
      [] c = "^" -> "POWER"
      [] c = "," -> "COMM"
      [] c = "$" -> "COMM"
      [] OTHER -> "INVALID"

\* the token types of the one-character cases of the switch
OperatorType(c) ==
    CASE c = "=" -> "ASSING"
      [] c = "+" -> "ADD"
      [] c = "/" -> "DIVIDE"
      [] c = "*" -> "MULT"
      [] c = "(" -> "LPAR"
      [] c = ")" -> "RPAR"
      [] c = "[" -> "LCOR"
      [] c = "]" -> "RCOR"
      [] c = "%" -> "MODULE"
      [] c = "^" -> "POWER"
      [] c = "," -> "COMM"
      [] OTHER -> "INVALID"

\* a variant of MinusIsSign: a closing parenthesis is not taken as an operand
MinusIsSign_AfterParen(toks) ==
    \/ Len(toks) = 0
    \/ toks[Len(toks)].type \notin {"NUM", "VAR"}

\* case '-': the minus is a sign when no token precedes it or the previous
\* token is not a number, a closing parenthesis or a variable
MinusIsSign(toks) ==
    \/ Len(toks) = 0
    \/ toks[Len(toks)].type \notin {"NUM", "RPAR", "VAR"}

\* One iteration of the while (*p) loop of tokenize.  The state of the loop
\* is p, the token buffer, ok (FALSE once the loop has returned false) and
\* done (TRUE once it has ended either way).
TokenizeStep(buff, st) ==
    LET p == st.p
        c == CharAt(buff, p)
        TokenizeFail(s) == [s EXCEPT !.ok = FALSE, !.done = TRUE]
        TokenizeAdd(s, tok, e) ==
            [s EXCEPT !.p = e,
                      !.toks = token_buffer_add(s, tok).toks,
                      !.size = token_buffer_add(s, tok).size]
    IN  IF c = "" THEN [st EXCEPT !.done = TRUE]
        ELSE IF IsSpace(c) THEN [st EXCEPT !.p = p + 1]
        ELSE IF IsDigit(c) THEN
            LET e == ScanNumber(buff, p + 1, FALSE)
            IN  IF e - p > TOKEN_LEXEME_LEN_LIMIT THEN TokenizeFail(st)
                ELSE TokenizeAdd(st, Token("NUM", p, e - p), e)
        ELSE IF IsNameChar(c) THEN
            LET e == ScanName(buff, p + 1)
            IN  IF e - p > TOKEN_LEXEME_LEN_LIMIT THEN TokenizeFail(st)
                ELSE IF e - p = 4 /\ SubSeq(buff, p, p + 3) = <<"s", "q", "r", "t">>
                THEN TokenizeAdd(st, Token("SQUARE", 0, 4), e)
                ELSE TokenizeAdd(st, Token("VAR", p, e - p), e)
        ELSE IF c = "-" THEN
            IF MinusIsSign(st.toks)
            THEN LET n == SkipBlanks(buff, p + 1)
                     e == ScanDigits(buff, n)
                 IN  TokenizeAdd(st, [Token("NUM", n, e - n) EXCEPT !.negative = TRUE], e)
            ELSE TokenizeAdd(st, Token("SUB", 0, 1), p + 1)
        ELSE IF OperatorType(c) # "INVALID"
        THEN TokenizeAdd(st, Token(OperatorType(c), 0, 1), p + 1)
        ELSE TokenizeFail(st)

\* up to k iterations of the loop from the state st, run as two halves
RECURSIVE TokenizeLoop(_, _, _)
TokenizeLoop(buff, st, k) ==
    IF st.done THEN st
    ELSE IF k = 1 THEN TokenizeStep(buff, st)
    ELSE TokenizeLoop(buff, TokenizeLoop(buff, st, k \div 2), k - (k \div 2))

\* tokenize(tokBuff, buff): count is reset, the buffer keeps its size; every
\* iteration but the last passes at least one character of the line
tokenize(size, buff) ==
    LET Returned(st) == [ok |-> st.ok, toks |-> st.toks, size |-> st.size]
    IN  Returned(TokenizeLoop(buff, [p |-> 1, toks |-> <<>>, size |-> size,
                                     ok |-> TRUE, done |-> FALSE],
                              Len(buff) + 1))

\* the constant lexemes of the operator tokens
OperatorLexeme(type) ==
    CASE type = "ASSING" -> <<"=">>
      [] type = "ADD" -> <<"+">>
      [] type = "SUB" -> <<"-">>
      [] type = "DIVIDE" -> <<"/">>
      [] type = "MULT" -> <<"*">>
      [] type = "LPAR" -> <<"(">>
      [] type = "RPAR" -> <<")">>
      [] type = "LCOR" -> <<"[">>
      [] type = "RCOR" -> <<"]">>
      [] type = "MODULE" -> <<"%">>
      [] type = "POWER" -> <<"^">>
      [] type = "COMM" -> <<",">>
      [] type = "SQUARE" -> <<"s", "q", "r", "t">>
      [] OTHER -> <<>>

\* the bytes snprintf(bufferNames, len + 1 + negative, "%s%s", ...) writes,
\* the terminator included: the sign and the line from the lexeme on, cut to
\* the size given
AdjustedBytes(tok, buff) ==
    IF tok.type \notin {"NUM", "VAR"} THEN 0
    ELSE LET size == tok.len + 1 + (IF tok.negative THEN 1 ELSE 0)
             whole == (IF tok.negative THEN 1 ELSE 0) + (Len(buff) - tok.start + 1) + 1
         IN  IF whole < size THEN whole ELSE size

\* token_adjust_lexeme: for a number or a variable, snprintf of at most
\* len + negative characters of "-" (when negative) followed by the lexeme
token_adjust_lexeme(tok, buff) ==
    IF tok.type \notin {"NUM", "VAR"} THEN OperatorLexeme(tok.type)
    ELSE LET last == IF tok.start + tok.len - 1 > Len(buff)
                     THEN Len(buff) ELSE tok.start + tok.len - 1
         IN  (IF tok.negative THEN <<"-">> ELSE <<>>) \o SubSeq(buff, tok.start, last)

---------------------------------------------------------------------------
(* Parser (parser.c) *)

\* The parser state: tok is curr_tok, nodes holds the curr_node nodes
\* created in nodesBuffer, size is the arena size, pending is the token
\* consume last wrote into nodesBuffer[curr_node], oob tells that such a
\* write went to index size, fault that a NULL node was dereferenced.
\* A node is [token, left, right]: a token index and node indices, 0 for NULL.
NoToken == 0
NoNode == 0

ParserAt(size) ==
    [tok |-> 0, nodes |-> <<>>, size |-> size, pending |-> NoToken,
     oob |-> FALSE, fault |-> FALSE]

peek(ps, toks) == IF ps.tok >= Len(toks) THEN NoToken ELSE ps.tok + 1

peek_next(ps, toks) == IF ps.tok + 1 >= Len(toks) THEN NoToken ELSE ps.tok + 2

TypeOf(toks, t) == IF t = NoToken THEN "EOF" ELSE toks[t].type

consume(ps, toks) ==
    IF ps.tok >= Len(toks) THEN [ps |-> ps, token |-> NoToken]
    ELSE [ps |-> [ps EXCEPT !.tok = @ + 1,
                            !.pending = ps.tok + 1,
                            !.oob = @ \/ Len(ps.nodes) >= ps.size],
          token |-> ps.tok + 1]

match(ps, toks, type) == TypeOf(toks, peek(ps, toks)) = type

expect(ps, toks, type) == TypeOf(toks, peek(ps, toks)) = type

create_binary_node(ps, op, left, right) ==
    IF Len(ps.nodes) >= ps.size THEN [ps |-> ps, node |-> NoNode]
    ELSE [ps |-> [ps EXCEPT !.nodes = Append(@, [token |-> op, left |-> left, right |-> right]),
                            !.pending = NoToken],
          node |-> Len(ps.nodes) + 1]

create_leaf_node(ps, token) == create_binary_node(ps, token, NoNode, NoNode)

Failed(ps) == [ps |-> ps, node |-> NoNode]

RECURSIVE parse_expression(_, _)
RECURSIVE parse_term(_, _)
RECURSIVE parse_power(_, _)
RECURSIVE parse_primary(_, _)

\* The steps of a function are local operators: each takes what the calls
\* before it returned.

\* case TOK_SQUARE of parse_primary; sqrt->left is written through the
\* pointer create_leaf_node returned
ParseSqrt(ps, toks) ==
    LET Close(s, linked, e) ==
            IF e.node = NoNode THEN Failed(linked)
            ELSE IF ~expect(linked, toks, "RPAR") THEN Failed(linked)
            ELSE [ps |-> consume(linked, toks).ps, node |-> s.node]
        Link(s, e) ==
            Close(s, IF s.node = NoNode THEN [e.ps EXCEPT !.fault = TRUE]
                     ELSE [e.ps EXCEPT !.nodes[s.node].left = e.node], e)
        Open(s) ==
            IF ~expect(s.ps, toks, "LPAR") THEN Failed(s.ps)
            ELSE Link(s, parse_expression(consume(s.ps, toks).ps, toks))
        Leaf(c) == Open(create_leaf_node(c.ps, c.token))
    IN  Leaf(consume(ps, toks))

\* case TOK_LPAR of parse_primary
ParseParenthesized(ps, toks) ==
    LET Close(e) ==
            IF e.node = NoNode THEN Failed(e.ps)
            ELSE IF ~expect(e.ps, toks, "RPAR") THEN Failed(e.ps)
            ELSE [ps |-> consume(e.ps, toks).ps, node |-> e.node]
    IN  Close(parse_expression(consume(ps, toks).ps, toks))

\* cases TOK_NUM and TOK_VAR of parse_primary
ParseLeaf(ps, toks) ==
    LET Leaf(c) == create_leaf_node(c.ps, c.token)
    IN  Leaf(consume(ps, toks))

parse_primary(ps, toks) ==
    LET type == TypeOf(toks, peek(ps, toks))
    IN  CASE type = "EOF" -> Failed(ps)
          [] type \in {"NUM", "VAR"} -> ParseLeaf(ps, toks)
          [] type = "LPAR" -> ParseParenthesized(ps, toks)
          [] type = "SQUARE" -> ParseSqrt(ps, toks)
          [] OTHER -> Failed(ps)

\* the right operand parsed, the operator node is created
BinaryOver(op, left, r) ==
    IF r.node = NoNode THEN Failed(r.ps)
    ELSE create_binary_node(r.ps, op, left, r.node)

\* a left-associative alternative to parse_power
RECURSIVE PowerLoop_LeftAssoc(_, _, _)
PowerLoop_LeftAssoc(ps, toks, left) ==
    LET Again(b) == IF b.node = NoNode THEN b ELSE PowerLoop_LeftAssoc(b.ps, toks, b.node)
        Right(c) == Again(BinaryOver(c.token, left, parse_primary(c.ps, toks)))
    IN  IF match(ps, toks, "POWER") THEN Right(consume(ps, toks))
        ELSE [ps |-> ps, node |-> left]

parse_power_LeftAssoc(ps, toks) ==
    LET Left(l) == IF l.node = NoNode THEN Failed(l.ps)
                   ELSE PowerLoop_LeftAssoc(l.ps, toks, l.node)
    IN  Left(parse_primary(ps, toks))

parse_power(ps, toks) ==
    LET Right(l, c) == BinaryOver(c.token, l.node, parse_power(c.ps, toks))
        Left(l) == IF l.node = NoNode THEN Failed(l.ps)
                   ELSE IF match(l.ps, toks, "POWER") THEN Right(l, consume(l.ps, toks))
                   ELSE l
    IN  Left(parse_primary(ps, toks))

\* the while loop of parse_term; a failed right operand returns NULL, the
\* node create_binary_node returns becomes left
RECURSIVE TermLoop(_, _, _)
TermLoop(ps, toks, left) ==
    LET Again(b) == TermLoop(b.ps, toks, b.node)
        Make(op, r) == IF r.node = NoNode THEN Failed(r.ps)
                       ELSE Again(BinaryOver(op, left, r))
    IN  IF TypeOf(toks, peek(ps, toks)) \in {"MULT", "DIVIDE", "MODULE"}
        THEN Make(consume(ps, toks).token, parse_power(consume(ps, toks).ps, toks))
        ELSE [ps |-> ps, node |-> left]

\* parse_term after its first operand: the NULL check, then the loop
TermAfter(l, toks) ==
    IF l.node = NoNode THEN Failed(l.ps) ELSE TermLoop(l.ps, toks, l.node)

\* a right-associative alternative to parse_term
parse_term_RightAssoc(ps, toks) ==
    LET Right(l, c) == BinaryOver(c.token, l.node, parse_term(c.ps, toks))
        Left(l) == IF l.node = NoNode THEN Failed(l.ps)
                   ELSE IF TypeOf(toks, peek(l.ps, toks)) \in {"MULT", "DIVIDE", "MODULE"}
                   THEN Right(l, consume(l.ps, toks))
                   ELSE l
    IN  Left(parse_power(ps, toks))

parse_term(ps, toks) == TermAfter(parse_power(ps, toks), toks)

\* the while loop of parse_expression
RECURSIVE ExpressionLoop(_, _, _)
ExpressionLoop(ps, toks, left) ==
    LET Again(b) == ExpressionLoop(b.ps, toks, b.node)
        Make(op, r) == IF r.node = NoNode THEN Failed(r.ps)
                       ELSE Again(BinaryOver(op, left, r))
    IN  IF TypeOf(toks, peek(ps, toks)) \in {"ADD", "SUB"}
        THEN Make(consume(ps, toks).token, parse_term(consume(ps, toks).ps, toks))
        ELSE [ps |-> ps, node |-> left]

\* parse_expression after its first operand: the NULL check, then the loop
ExpressionAfter(l, toks) ==
    IF l.node = NoNode THEN Failed(l.ps) ELSE ExpressionLoop(l.ps, toks, l.node)

parse_expression(ps, toks) == ExpressionAfter(parse_term(ps, toks), toks)

parse_statement(ps, toks) ==
    LET var == ParseLeaf(ps, toks)
        op == consume(var.ps, toks)
        Assign(value) == IF var.node = NoNode THEN Failed(var.ps)
                         ELSE BinaryOver(op.token, var.node, value)
    IN  IF /\ TypeOf(toks, peek(ps, toks)) = "VAR"
           /\ TypeOf(toks, peek_next(ps, toks)) = "ASSING"
        THEN Assign(parse_expression(op.ps, toks))
        ELSE parse_expression(ps, toks)

\* a variant of parse: the arena keeps the size it has
parse_KeepsArena(size, toks, tokSize) == parse_statement(ParserAt(size), toks)

\* parse(parser): the cursors restart; the arena is reallocated to the size
\* of the token buffer when it has fewer than count + 1 nodes
parse(size, toks, tokSize) ==
    parse_statement(ParserAt(IF size < Len(toks) + 1 THEN tokSize ELSE size), toks)

---------------------------------------------------------------------------
(* Evaluator (parser.c) *)

\* the history of the values passed to symbol_table_insert, by name
Bind(b, name, v) == [n \in (DOMAIN b) \cup {name} |-> IF n = name THEN v ELSE b[n]]

NoBindings == [n \in {} |-> NaN]

\* The evaluation state: pool holds the count slots of mpfrBuffer handed out,
\* size is mpfrBuffer->size, table the symbol table, crashed tells that the
\* process faulted, log has one entry per node evaluated, in the order the
\* calls returned: the node, its token type, its slot and its children's,
\* the values the children returned, and the value the node returned.
\* stale is the number of slots handed out before realloc moved the pool:
\* the calls still running hold pointers to them in the block realloc freed.
NoSlot == 0

EvalStart(poolSize, t, b) ==
    [pool |-> <<>>, size |-> poolSize, table |-> t, bindings |-> b,
     resizes |-> 0, crashed |-> FALSE, log |-> <<>>, stale |-> 0]

\* a pointer into the block realloc freed
IsStale(e, slot) == slot # NoSlot /\ slot <= e.stale

\* the value read through a slot pointer: a read of freed memory gives the
\* value last written there or one the model does not track
SlotValue(e, slot, cx) ==
    IF IsStale(e, slot) /\ cx.view = "garbled" THEN Approx ELSE e.pool[slot]

LogEntry(node, type, slot, lslot, rslot, lval, rval, value) ==
    [node |-> node, type |-> type, slot |-> slot, lslot |-> lslot, rslot |-> rslot,
     lval |-> lval, rval |-> rval, value |-> value]

\* what a two-operand case writes: the result slot, and the left child's
\* slot, which only mpfr_modf(*result, *left_val, *right_val) writes: *result
\* gets the integral part of *right_val and *left_val its fractional part
BinaryResult(type, lv, rv) ==
    CASE type = "ADD" -> [result |-> MpfrAdd(lv, rv), left |-> lv]
      [] type = "SUB" -> [result |-> MpfrSub(lv, rv), left |-> lv]
      [] type = "MULT" -> [result |-> MpfrMul(lv, rv), left |-> lv]
      [] type = "POWER" -> [result |-> MpfrPow(lv, rv), left |-> lv]
      [] type = "DIVIDE" ->
            [result |-> IF IsZero(rv) THEN NaN ELSE MpfrDiv(lv, rv), left |-> lv]
      [] type = "MODULE" ->
            IF IsZero(rv) THEN [result |-> NaN, left |-> lv]
            ELSE [result |-> ModfInt(rv), left |-> ModfFrac(rv)]

\* return NULL
NodeNull(e) == [es |-> e, slot |-> NoSlot]

\* a NULL pointer or freed memory is dereferenced
NodeCrash(e) == [es |-> [e EXCEPT !.crashed = TRUE], slot |-> NoSlot]

\* return result: the node's slot and, for a two-operand case, its left
\* child's slot are written, and the call is logged; a write through a stale
\* pointer can fault or leave a value the model does not track
NodeReturn(e, node, type, slot, lslot, rslot, lval, rval, value, left, cx) ==
    LET stale == IsStale(e, slot) \/ IsStale(e, lslot) \/ IsStale(e, rslot)
        v == IF stale /\ cx.view = "garbled" THEN Approx ELSE value
        lv == IF stale /\ cx.view = "garbled" THEN Approx ELSE left
    IN  IF stale /\ cx.view = "fault" THEN NodeCrash(e)
        ELSE [es |-> [e EXCEPT !.pool = IF lslot = NoSlot THEN [@ EXCEPT ![slot] = v]
                                        ELSE [@ EXCEPT ![slot] = v, ![lslot] = lv],
                               !.log = Append(@, LogEntry(node, type, slot, lslot, rslot,
                                                          lval, rval, v))],
              slot |-> slot]

RECURSIVE evaluate_node(_, _, _)

\* case TOK_NUM
EvalNumber(e0, node, tokn, slot, cx) ==
    LET Set(r) == NodeReturn(e0, node, "NUM", slot, NoSlot, NoSlot, NaN, NaN,
                             IF r.status = 0 THEN r.value ELSE NaN, NaN, cx)
    IN  Set(mpfr_set_str(token_adjust_lexeme(tokn, cx.buff)))

\* a variant of EvalVariable: a name that is not found is inserted as NaN
EvalVariable_Defines(e0, node, tokn, slot, cx) ==
    LET Defined(g, ins) ==
            NodeReturn([e0 EXCEPT !.table = IF g.ret = "found" THEN g.table ELSE ins.table],
                       node, "VAR", slot, NoSlot, NoSlot, NaN, NaN,
                       IF g.ret = "found" THEN g.num ELSE NaN, NaN, cx)
        Got(g) ==
            IF g.ret = "fault" THEN NodeCrash(e0)
            ELSE Defined(g, symbol_table_insert(g.table, token_adjust_lexeme(tokn, cx.buff),
                                                NaN, tokn.len, cx.view))
    IN  Got(symbol_table_get(e0.table, token_adjust_lexeme(tokn, cx.buff), tokn.len, cx.view))

\* case TOK_VAR
EvalVariable(e0, node, tokn, slot, cx) ==
    LET Got(g) ==
            IF g.ret = "fault" THEN NodeCrash(e0)
            ELSE NodeReturn([e0 EXCEPT !.table = g.table], node, "VAR", slot,
                            NoSlot, NoSlot, NaN, NaN,
                            IF g.ret = "found" THEN g.num ELSE NaN, NaN, cx)
    IN  Got(symbol_table_get(e0.table, token_adjust_lexeme(tokn, cx.buff), tokn.len, cx.view))

\* cases TOK_ADD, TOK_SUB, TOK_DIVIDE, TOK_MODULE, TOK_MULT, TOK_POWER: both
\* children are evaluated, then the NULL checks are made
EvalBinary(e0, node, n, type, slot, cx) ==
    LET l == evaluate_node(e0, n.left, cx)
        r == IF l.es.crashed THEN NodeNull(l.es) ELSE evaluate_node(l.es, n.right, cx)
        Write(lv, rv, b) ==
            NodeReturn(r.es, node, type, slot, l.slot, r.slot, lv, rv, b.result, b.left, cx)
    IN  IF l.slot = NoSlot \/ r.slot = NoSlot THEN NodeNull(r.es)
        ELSE Write(SlotValue(r.es, l.slot, cx), SlotValue(r.es, r.slot, cx),
                   BinaryResult(type, SlotValue(r.es, l.slot, cx),
                                SlotValue(r.es, r.slot, cx)))

\* case TOK_SQUARE
EvalSqrt(e0, node, n, slot, cx) ==
    LET a == evaluate_node(e0, n.left, cx)
        Root(av, root) ==
            NodeReturn(a.es, node, "SQUARE", slot, a.slot, NoSlot, av, NaN,
                       IF CmpBelowZero(av) THEN NaN ELSE root, av, cx)
    IN  IF a.slot = NoSlot THEN NodeNull(a.es)
        ELSE Root(SlotValue(a.es, a.slot, cx), MpfrSqrt(SlotValue(a.es, a.slot, cx)))

\* case TOK_ASSING: the right child is evaluated and its value stored under
\* the adjusted lexeme of the left child's token; NULL from
\* symbol_table_insert is returned as NULL
EvalAssign(e0, node, n, slot, cx) ==
    LET r == evaluate_node(e0, n.right, cx)
        var == cx.toks[cx.nodes[n.left].token]
        name == token_adjust_lexeme(var, cx.buff)
        Stored(rv, ins) ==
            IF ins.ret = "fault" THEN NodeCrash(r.es)
            ELSE IF ins.ret = "null"
            THEN NodeNull([r.es EXCEPT !.table = ins.table,
                                       !.resizes = IF ins.resized THEN @ + 1 ELSE @])
            ELSE NodeReturn([r.es EXCEPT !.table = ins.table,
                                         !.bindings = Bind(@, name, rv),
                                         !.resizes = IF ins.resized THEN @ + 1 ELSE @],
                            node, "ASSING", slot, NoSlot, r.slot, NaN, rv, rv, NaN, cx)
    IN  IF r.slot = NoSlot THEN NodeNull(r.es)
        ELSE IF n.left = NoNode THEN NodeCrash(r.es)
        ELSE IF IsStale(r.es, r.slot) /\ cx.view = "fault" THEN NodeCrash(r.es)
        ELSE Stored(SlotValue(r.es, r.slot, cx),
                    symbol_table_insert_under(cx.mem, r.es.table, name,
                                              SlotValue(r.es, r.slot, cx), var.len, cx.view))

\* switch (node->token->type)
EvalSwitch(e0, node, n, type, slot, cx) ==
    CASE type = "NUM" -> EvalNumber(e0, node, cx.toks[n.token], slot, cx)
      [] type = "VAR" -> EvalVariable(e0, node, cx.toks[n.token], slot, cx)
      [] type \in {"ADD", "SUB", "DIVIDE", "MODULE", "MULT", "POWER"} ->
            EvalBinary(e0, node, n, type, slot, cx)
      [] type = "SQUARE" -> EvalSqrt(e0, node, n, slot, cx)
      [] type = "ASSING" -> EvalAssign(e0, node, n, slot, cx)
      [] OTHER -> NodeNull(e0)

\* the scratch pool doubles when it is full (NULL is returned when realloc
\* fails); the next slot is handed out and set to 0; then the switch on the
\* token type
evaluate_node(es, node, cx) ==
    IF node = NoNode THEN NodeCrash(es)
    ELSE IF Len(es.pool) >= es.size /\ cx.mem = "pool fails" THEN NodeNull(es)
    ELSE EvalSwitch([es EXCEPT !.size = IF Len(es.pool) >= es.size
                                        THEN (es.size * 2) % 65536 ELSE es.size,
                               !.stale = IF Len(es.pool) >= es.size /\ cx.mem = "moves"
                                         THEN Len(es.pool) ELSE @,
                               !.pool = Append(@, Num(0))],
                    node, cx.nodes[node], cx.toks[cx.nodes[node].token].type,
                    Len(es.pool) + 1, cx)

\* evaluate_expression(parser, head, ans): count restarts at 0; ok is the
\* returned bool and ans the value written to *ans when it is true
evaluate_expression(poolSize, t, b, head, cx) ==
    LET Result(r) == [es |-> r.es, ok |-> r.slot # NoSlot,
                      ans |-> IF r.slot # NoSlot THEN SlotValue(r.es, r.slot, cx) ELSE NaN]
    IN  Result(evaluate_node(EvalStart(poolSize, t, b), head, cx))

---------------------------------------------------------------------------
(* The main loop (instruction.c) *)

\* symbol_table_show: reads every Symbol of every chain
symbol_table_show(t, view) ==
    IF TouchesFreed(AllSymbols(t)) /\ view = "fault" THEN "fault" ELSE "done"

\* the names instruction_map_creation registers
CMD_CLEAR_VARS == <<"-", "c", "l", "e", "a", "r", "-", "v", "a", "r", "s">>
CMD_HELP == <<"-", "h", "e", "l", "p">>
CMD_INFO == <<"-", "i", "n", "f", "o">>
CMD_EXIT == <<"-", "e", "x", "i", "t">>
CMD_CLEAR == <<"-", "c", "l", "e", "a", "r">>
CMD_SHOW == <<"-", "s", "h", "o", "w">>
Commands == {CMD_CLEAR_VARS, CMD_HELP, CMD_INFO, CMD_EXIT, CMD_CLEAR, CMD_SHOW}

\* strtok(inst, " ") on a buffer that starts with '-': the token runs to the
\* first space, which strtok overwrites with NUL, so the buffer then reads
\* as the token
StrtokFirst(buff) ==
    LET spaces == {i \in 1..Len(buff) : buff[i] = " "}
    IN  IF spaces = {} THEN buff
        ELSE SubSeq(buff, 1, (CHOOSE i \in spaces : \A k \in spaces : i <= k) - 1)

LAST == <<"l", "a", "s", "t">>

\* What one iteration of the while (app->run) loop leaves: the stage it
\* reached, the buffers, the table and the App (evaluated is the table as
\* evaluate_expression left it, before "last" is stored).  An empty line
\* leaves this:
MainQuiet(buff, t, b, a) ==
    [stage |-> "empty", text |-> buff, toks |-> <<>>, nodes |-> <<>>,
     head |-> NoNode, consumed |-> 0, oob |-> FALSE, pool |-> <<>>,
     log |-> <<>>, value |-> NaN, table |-> t, bindings |-> b, app |-> a,
     crashed |-> FALSE, resized |-> 0, emptied |-> FALSE, moved |-> FALSE,
     again |-> 0, evaluated |-> t]

\* symbol_table_insert(app->parser->symTable, "last", &app->result, 4)
\* returned; what it returned is not looked at
MainStored(evaluated, ans, ins) ==
    IF ins.ret = "fault"
    THEN [evaluated EXCEPT !.stage = "crash", !.crashed = TRUE, !.value = ans,
                           !.app.result = ans]
    ELSE IF ins.ret = "null"
    THEN [evaluated EXCEPT !.stage = "result", !.value = ans, !.app.result = ans,
                           !.table = ins.table,
                           !.resized = IF ins.resized THEN @ + 1 ELSE @]
    ELSE [evaluated EXCEPT !.stage = "result", !.value = ans, !.app.result = ans,
                           !.table = ins.table,
                           !.bindings = Bind(@, LAST, ans),
                           !.resized = IF ins.resized THEN @ + 1 ELSE @]

\* evaluate_expression returned
MainEvaluated(parsed, ev, view, mem) ==
    LET evaluated == [parsed EXCEPT !.pool = ev.es.pool, !.log = ev.es.log,
                                    !.table = ev.es.table, !.bindings = ev.es.bindings,
                                    !.resized = ev.es.resizes,
                                    !.app.poolSize = ev.es.size,
                                    !.moved = ev.es.stale > 0,
                                    !.evaluated = ev.es.table]
    IN  IF ev.es.crashed THEN [evaluated EXCEPT !.stage = "crash", !.crashed = TRUE]
        ELSE IF ~ev.ok THEN [evaluated EXCEPT !.stage = "evaluate failed"]
        ELSE MainStored(evaluated, ev.ans,
                        symbol_table_insert_under(mem, ev.es.table, LAST, ev.ans, 4, view))

\* parse returned
MainParsed(tokenized, text, toks, pr, t, b, view, mem, a) ==
    LET parsed == [tokenized EXCEPT !.nodes = pr.ps.nodes, !.head = pr.node,
                                    !.consumed = pr.ps.tok, !.oob = pr.ps.oob,
                                    !.app.arenaSize = pr.ps.size]
    IN  IF pr.ps.fault THEN [parsed EXCEPT !.stage = "crash", !.crashed = TRUE]
        ELSE IF pr.node = NoNode THEN [parsed EXCEPT !.stage = "parse failed"]
        ELSE MainEvaluated(parsed,
                           evaluate_expression(a.poolSize, t, b, pr.node,
                                               [nodes |-> pr.ps.nodes, toks |-> toks,
                                                buff |-> text, view |-> view,
                                                mem |-> mem]),
                           view, mem)

\* a variant of MainTokenized: the line is parsed whatever tokenize returned
MainTokenized_Unchecked(text, tk, t, b, view, mem, a) ==
    LET tokenized == [MainQuiet(text, t, b, a) EXCEPT !.toks = tk.toks,
                                                      !.app.tokSize = tk.size]
    IN  MainParsed(tokenized, text, tk.toks,
                   parse(a.arenaSize, tk.toks, tk.size), t, b, view, mem, a)

\* tokenize returned
MainTokenized(text, tk, t, b, view, mem, a) ==
    LET tokenized == [MainQuiet(text, t, b, a) EXCEPT !.toks = tk.toks,
                                                      !.app.tokSize = tk.size]
    IN  IF ~tk.ok THEN [tokenized EXCEPT !.stage = "tokenize failed"]
        ELSE MainParsed(tokenized, text, tk.toks,
                        parse(a.arenaSize, tk.toks, tk.size), t, b, view, mem, a)

\* the Symbols symbol_table_empty releases although they were released
\* before: mpfr_clear, free(name) and free(current) run on each a second time
ReleasedAgain(t, view) ==
    IF view = "fault" THEN 0 ELSE Len(AllSymbols(t)) - Cardinality(LiveSymbols(t))

\* a command found by instruction_map_execute
MainCommand(text, t, b, view, a) ==
    LET Ran(quiet) ==
            CASE text = CMD_EXIT -> [quiet EXCEPT !.app.run = FALSE]
              [] text = CMD_CLEAR_VARS ->
                    [quiet EXCEPT !.table = symbol_table_empty(t, view).table,
                                  !.crashed = (symbol_table_empty(t, view).ret = "fault"),
                                  !.bindings = IF symbol_table_empty(t, view).ret = "fault"
                                               THEN b ELSE NoBindings,
                                  !.emptied = TRUE,
                                  !.again = ReleasedAgain(t, view)]
              [] text = CMD_SHOW ->
                    [quiet EXCEPT !.crashed = (symbol_table_show(t, view) = "fault")]
              [] OTHER -> quiet
    IN  Ran([MainQuiet(text, t, b, a) EXCEPT !.stage = "command"])

\* One iteration of the while (app->run) loop on the line read into
\* app->buffer (newline stripped); text is the buffer as the '-' prefix
\* check and strtok leave it
MainLine(text, prefixed, t, b, view, mem, a) ==
    IF prefixed /\ text \in Commands THEN MainCommand(text, t, b, view, a)
    ELSE MainTokenized(text, tokenize(a.tokSize, text), t, b, view, mem, a)

MainIteration(buff, t, b, view, mem, a) ==
    IF Len(buff) = 0 THEN MainQuiet(buff, t, b, a)
    ELSE MainLine(IF buff[1] = "-" THEN StrtokFirst(buff) ELSE buff, buff[1] = "-",
                  t, b, view, mem, a)

---------------------------------------------------------------------------
(* The symbol table driven through its interface: symbol_table_insert,     *)
(* symbol_table_get and symbol_table_empty in any order, on a few names    *)
(* of which "f" and "last" share a bucket.                                 *)

SmallNames == { <<"f">>, <<"l","a","s","t">>, <<"a">> }
SmallValues == { Num(1), Num(2) }

NoOut == [stage |-> "none"]

\* main, up to the loop: the token buffer, the arena and the scratch pool at
\* their initial sizes, app->result initialized (NaN), app->run set
AppCreated ==
    [run |-> TRUE, result |-> NaN, tokSize |-> TOKEN_BUFFER_SIZE,
     arenaSize |-> TOKEN_BUFFER_SIZE, poolSize |-> MPRF_BUFFER_SIZE]

InitWith(buff) ==
    /\ table = symbol_table_create
    /\ bindings = NoBindings
    /\ heapView = "none"
    /\ crashed = FALSE
    /\ lastOp = "create"
    /\ cleared = 0
    /\ resizes = 0
    /\ nextName = 1
    /\ updates = 0
    /\ line = buff
    /\ out = NoOut
    /\ app = AppCreated
    /\ reads = 0

InitCommon == InitWith(<<>>)

Init == InitCommon

\* one symbol_table_insert call
InsertCall(name, v) ==
    LET r == symbol_table_insert(table, name, v, Len(name), heapView)
    IN  /\ ~crashed
        /\ lastOp' = "insert"
        /\ IF r.ret = "fault"
           THEN /\ crashed' = TRUE
                /\ UNCHANGED <<table, bindings, resizes>>
           ELSE /\ table' = r.table
                /\ bindings' = Bind(bindings, name, v)
                /\ resizes' = IF r.resized THEN resizes + 1 ELSE resizes
                /\ UNCHANGED crashed

\* one symbol_table_get call
GetCall(name) ==
    LET r == symbol_table_get(table, name, Len(name), heapView)
    IN  /\ ~crashed
        /\ lastOp' = "get"
        /\ table' = r.table
        /\ crashed' = (r.ret = "fault")
        /\ UNCHANGED <<bindings, resizes>>

Insert ==
    /\ \E name \in SmallNames, v \in SmallValues : InsertCall(name, v)
    /\ UNCHANGED <<heapView, cleared, nextName, updates, line, out, app, reads>>

Get ==
    /\ \E name \in SmallNames : GetCall(name)
    /\ UNCHANGED <<heapView, cleared, nextName, updates, line, out, app, reads>>

\* clear_vars_command: symbol_table_empty(app->parser->symTable)
Empty ==
    /\ ~crashed
    /\ cleared < MaxClears
    /\ \E view \in HeapViews :
          /\ heapView' = IF heapView = "none" /\ AllSymbols(table) # <<>>
                         THEN view ELSE heapView
          /\ LET r == symbol_table_empty(table, heapView)
             IN  /\ table' = r.table
                 /\ crashed' = (r.ret = "fault")
    /\ lastOp' = "empty"
    /\ cleared' = cleared + 1
    /\ bindings' = NoBindings
    /\ UNCHANGED <<resizes, nextName, updates, line, out, app, reads>>

Next == Insert \/ Get \/ Empty

Spec == Init /\ [][Next]_vars

---------------------------------------------------------------------------
(* The insert-only harness: fresh names NameOf(1), NameOf(2), ... in turn, *)
(* each with its index as value, and re-assignments of names already in.   *)

NameChars == Lower \o Upper \o <<"_">>

\* distinct names of one and two characters
NameOf(i) ==
    LET q == (i - 1) \div 2
        c1 == NameChars[(q % 53) + 1]
    IN  IF (i - 1) % 2 = 0 THEN <<c1>>
        ELSE <<c1, NameChars[((q * 7 + 3) % 53) + 1]>>

InsertNew ==
    /\ nextName <= MaxNames
    /\ InsertCall(NameOf(nextName), Num(nextName))
    /\ nextName' = nextName + 1
    /\ UNCHANGED <<heapView, cleared, updates, line, out, app, reads>>

\* the name re-assigned is the first or the last one inserted
Update ==
    /\ updates < MaxUpdates
    /\ nextName > 1
    /\ \E i \in {1, nextName - 1} :
          InsertCall(NameOf(i), Num(bindings[NameOf(i)].n + 100))
    /\ updates' = updates + 1
    /\ UNCHANGED <<heapView, cleared, nextName, line, out, app, reads>>

\* a lookup of the first name, of the last one inserted, or of the next one,
\* which was never inserted
Probe ==
    /\ \E i \in {1, nextName - 1, nextName} \ {0} : GetCall(NameOf(i))
    /\ UNCHANGED <<heapView, cleared, nextName, updates, line, out, app, reads>>

NextInsert == InsertNew \/ Update \/ Probe

SpecInsert == Init /\ [][NextInsert]_vars

\* The fill harness: distinct names only, one symbol_table_insert call each.
FillNew ==
    /\ nextName <= MaxFill
    /\ InsertCall(NameOf(nextName), Num(nextName))
    /\ nextName' = nextName + 1
    /\ UNCHANGED <<heapView, cleared, updates, line, out, app, reads>>

NextFill == FillNew \/ Probe

SpecFill == Init /\ [][NextFill]_vars


---------------------------------------------------------------------------
(* The interpreter driven by input lines *)

\* what an iteration of the main loop leaves, as the next state
Apply(r) ==
    /\ table' = r.table
    /\ bindings' = r.bindings
    /\ crashed' = r.crashed
    /\ resizes' = resizes + r.resized
    /\ cleared' = IF r.emptied THEN cleared + 1 ELSE cleared
    /\ app' = r.app
    /\ lastOp' = "line"
    /\ reads' = reads + 1
    /\ out' = [stage |-> r.stage, text |-> r.text, toks |-> r.toks, nodes |-> r.nodes,
               head |-> r.head, consumed |-> r.consumed, oob |-> r.oob,
               pool |-> r.pool, log |-> r.log, value |-> r.value,
               countBefore |-> table.count, again |-> r.again, moved |-> r.moved,
               evaluated |-> r.evaluated]

\* input lines
L_2pow3pow2 == <<"2", "^", "3", "^", "2">>
L_paren == <<"(", "2", "+", "3", ")", "*", "4">>
L_sqrt16 == <<"s", "q", "r", "t", "(", "1", "6", ")", " ", "+", " ", "2">>
L_7mod3 == <<"7", " ", "%", " ", "3">>
L_8div2 == <<"8", " ", "/", " ", "2">>
L_divzero_mod == <<"(", "1", "/", "0", ")", " ", "%", " ", "3">>
L_divzero_pow == <<"(", "1", "/", "0", ")", " ", "^", " ", "0">>
L_1div0 == <<"1", "/", "0">>
L_1mod0 == <<"1", "%", "0">>
L_sqrtneg == <<"s", "q", "r", "t", "(", "0", "-", "1", ")">>
L_1plusnan == <<"1", " ", "+", " ", "(", "1", "/", "0", ")">>
L_undef == <<"x">>
L_42 == <<"4", "2">>
L_1dot5 == <<"1", ".", "5">>
L_1comma5 == <<"1", ",", "5">>
L_neg3 == <<"-", "3">>
L_neg3dot5 == <<"-", "3", ".", "5">>
L_0dot25 == <<"0", ".", "2", "5">>
L_neg == <<"-", "x">>
L_a5 == <<"a", " ", "=", " ", "5">>
L_a2 == <<"a", " ", "=", " ", "2">>
L_aplus1 == <<"a", " ", "=", " ", "a", " ", "+", " ", "1">>
L_a == <<"a">>
L_ba == <<"b", " ", "=", " ", "a">>

\* Expression trees [lex, kids] with up to MaxOps operators over two number
\* leaves, written out as lines with the parentheses the grammar needs.
LeafLexemes == {<<"2">>, <<"3">>}
BinaryLexemes == {<<"+">>, <<"-">>, <<"*">>, <<"/">>, <<"%">>, <<"^">>}
SQRT == <<"s", "q", "r", "t">>

RECURSIVE TreesOfSize(_)
TreesOfSize(n) ==
    IF n = 0 THEN {[lex |-> l, kids |-> <<>>] : l \in LeafLexemes}
    ELSE {[lex |-> SQRT, kids |-> <<t>>] : t \in TreesOfSize(n - 1)}
         \cup UNION {{[lex |-> op, kids |-> <<l, r>>] :
                        op \in BinaryLexemes, l \in TreesOfSize(i),
                        r \in TreesOfSize(n - 1 - i)} : i \in 0..(n - 1)}

\* the level of the grammar that produces a tree's root: expression 1,
\* term 2, power 3, primary 4
Level(t) ==
    IF Len(t.kids) < 2 THEN 4
    ELSE IF t.lex \in {<<"+">>, <<"-">>} THEN 1
    ELSE IF t.lex = <<"^">> THEN 3
    ELSE 2

RECURSIVE Unparse(_)
Unparse(t) ==
    LET Wrap(k, needed) == IF needed THEN <<"(">> \o Unparse(k) \o <<")">> ELSE Unparse(k)
    IN  IF Len(t.kids) = 0 THEN t.lex
        ELSE IF Len(t.kids) = 1 THEN SQRT \o <<"(">> \o Unparse(t.kids[1]) \o <<")">>
        ELSE IF Level(t) = 3
        THEN Wrap(t.kids[1], Level(t.kids[1]) <= 3) \o t.lex
                \o Wrap(t.kids[2], Level(t.kids[2]) < 3)
        ELSE Wrap(t.kids[1], Level(t.kids[1]) < Level(t)) \o t.lex
                \o Wrap(t.kids[2], Level(t.kids[2]) <= Level(t))

TreeLines == {Unparse(t) : t \in UNION {TreesOfSize(n) : n \in 0..MaxOps}}

\* lines of the specification's examples, and number literals
ExampleLines ==
    { L_2pow3pow2, L_paren, L_sqrt16, L_7mod3, L_8div2,
      L_divzero_mod, L_divzero_pow, L_1div0, L_1mod0, L_sqrtneg, L_1plusnan, L_undef,
      L_42, L_1dot5, L_1comma5, L_neg3, L_neg3dot5, L_0dot25, L_neg }

ExprLines == TreeLines \cup ExampleLines

InitExpr == \E buff \in ExprLines : InitWith(buff)

\* the main loop reads the line and processes it
Evaluate ==
    /\ reads = 0
    /\ ~crashed
    /\ app.run
    /\ Apply(MainIteration(line, table, bindings, heapView, "plenty", app))
    /\ UNCHANGED <<heapView, nextName, updates, line>>

NextExpr == Evaluate

SpecExpr == InitExpr /\ [][NextExpr]_vars

\* The read-eval loop over assignment and expression statements.
StatementLines == { L_a5, L_a2, L_aplus1, L_a, L_ba }

ReadLine ==
    /\ reads < MaxLines
    /\ ~crashed
    /\ app.run
    /\ \E buff \in StatementLines :
          /\ line' = buff
          /\ Apply(MainIteration(buff, table, bindings, heapView, "plenty", app))
    /\ UNCHANGED <<heapView, nextName, updates>>

NextRepl == ReadLine

SpecRepl == Init /\ [][NextRepl]_vars

---------------------------------------------------------------------------
(* The whole program: main from the creation of the parser to its return,  *)
(* over statements, failing lines, commands and one line long enough to    *)
(* fill the scratch pool.                                                  *)

\* the requests parser_create makes, in order (the third and the fourth are
\* symbol_table_create's)
AllocSteps == <<"Parser", "nodesBuffer", "SymbolTable", "buckets", "MpfrBuffer", "buffer">>

\* a variant of parser_create: the node arena is not released once the symbol table exists
parser_create_KeepsArena(refused) ==
    CASE refused = "Parser" ->
            [ret |-> "null", granted |-> <<>>, released |-> <<>>]
      [] refused = "nodesBuffer" ->
            [ret |-> "null", granted |-> <<"Parser">>, released |-> <<"Parser">>]
      [] refused = "SymbolTable" ->
            [ret |-> "null", granted |-> <<"Parser", "nodesBuffer">>,
             released |-> <<"nodesBuffer", "Parser">>]
      [] refused = "buckets" ->
            [ret |-> "null", granted |-> <<"Parser", "nodesBuffer", "SymbolTable">>,
             released |-> <<"SymbolTable", "nodesBuffer", "Parser">>]
      [] refused = "MpfrBuffer" ->
            [ret |-> "null",
             granted |-> <<"Parser", "nodesBuffer", "SymbolTable", "buckets">>,
             released |-> <<"buckets", "SymbolTable", "Parser">>]
      [] refused = "buffer" ->
            [ret |-> "null",
             granted |-> <<"Parser", "nodesBuffer", "SymbolTable", "buckets", "MpfrBuffer">>,
             released |-> <<"MpfrBuffer", "buckets", "SymbolTable", "Parser">>]
      [] OTHER -> [ret |-> "parser", granted |-> AllocSteps, released |-> <<>>]

\* parser_create(tokens) when the request named is refused ("none": all are
\* granted): what it returns, the blocks it was granted and the blocks it
\* released, in order
parser_create(refused) ==
    CASE refused = "Parser" ->
            [ret |-> "null", granted |-> <<>>, released |-> <<>>]
      [] refused = "nodesBuffer" ->
            [ret |-> "null", granted |-> <<"Parser">>, released |-> <<"Parser">>]
      [] refused = "SymbolTable" ->
            [ret |-> "null", granted |-> <<"Parser", "nodesBuffer">>,
             released |-> <<"nodesBuffer", "Parser">>]
      [] refused = "buckets" ->
            [ret |-> "null", granted |-> <<"Parser", "nodesBuffer", "SymbolTable">>,
             released |-> <<"SymbolTable", "nodesBuffer", "Parser">>]
      [] refused = "MpfrBuffer" ->
            [ret |-> "null",
             granted |-> <<"Parser", "nodesBuffer", "SymbolTable", "buckets">>,
             released |-> <<"buckets", "SymbolTable", "nodesBuffer", "Parser">>]
      [] refused = "buffer" ->
            [ret |-> "null",
             granted |-> <<"Parser", "nodesBuffer", "SymbolTable", "buckets", "MpfrBuffer">>,
             released |-> <<"MpfrBuffer", "buckets", "SymbolTable", "nodesBuffer", "Parser">>]
      [] OTHER -> [ret |-> "parser", granted |-> AllocSteps, released |-> <<>>]

\* main before parser_create: App, the instruction map and the token buffer
\* are allocated; there is no parser, no table and no scratch pool yet
MainEntered ==
    [run |-> FALSE, result |-> NaN, tokSize |-> TOKEN_BUFFER_SIZE,
     arenaSize |-> 0, poolSize |-> 0]

NoTable == [buckets |-> <<>>, capacity |-> 0, count |-> 0]

InitMain ==
    /\ table = NoTable
    /\ bindings = NoBindings
    /\ heapView = "none"
    /\ crashed = FALSE
    /\ lastOp = "main"
    /\ cleared = 0
    /\ resizes = 0
    /\ nextName = 1
    /\ updates = 0
    /\ line = <<>>
    /\ out = NoOut
    /\ app = MainEntered
    /\ reads = 0

\* app->parser = parser_create(token_buff); on NULL main releases the token
\* buffer, the instruction map and App, and returns 1
Construct ==
    /\ lastOp = "main"
    /\ \E refused \in {AllocSteps[i] : i \in DOMAIN AllocSteps} \cup {"none"} :
          LET p == parser_create(refused)
          IN  IF p.ret = "null"
              THEN /\ out' = [stage |-> "create failed", refused |-> refused,
                              granted |-> p.granted, byParser |-> p.released,
                              byMain |-> <<"TokenBuffer", "InstructionMap", "App">>]
                   /\ lastOp' = "return"
                   /\ UNCHANGED <<table, app>>
              ELSE /\ out' = [stage |-> "created", refused |-> refused,
                              granted |-> p.granted, byParser |-> p.released,
                              byMain |-> <<>>]
                   /\ lastOp' = "create"
                   /\ table' = symbol_table_create
                   /\ app' = AppCreated
    /\ UNCHANGED <<bindings, heapView, crashed, cleared, resizes, nextName, updates,
                   line, reads>>

\* the parser exists and the process is alive
Serving ==
    /\ lastOp \notin {"main", "return", "teardown"}
    /\ ~crashed

\* the loop reads one more line
Reading ==
    /\ Serving
    /\ app.run
    /\ reads < MaxServed

\* how freed memory reads, settled when the first block is freed
FreshViews == IF heapView = "none" THEN HeapViews ELSE {heapView}

\* one iteration of the loop on the line buff
Serve(buff, view, mem) ==
    LET Served(r) ==
            /\ Apply(r)
            /\ heapView' = IF r.moved \/ (r.emptied /\ AllSymbols(table) # <<>>)
                           THEN view ELSE heapView
    IN  /\ line' = buff
        /\ Served(MainIteration(buff, table, bindings, view, mem, app))
        /\ UNCHANGED <<nextName, updates>>

L_a7bad == <<"a", " ", "=", " ", "7", " ", "$">>
L_a7open == <<"a", " ", "=", " ", "(", "7">>

\* 2^k groups "1+1+1+1" joined by ")+(" in a balanced nest of parentheses
RECURSIVE Nested(_)
Nested(k) ==
    IF k = 0 THEN <<"1", "+", "1", "+", "1", "+", "1">>
    ELSE <<"(">> \o Nested(k - 1) \o <<")", "+", "(">> \o Nested(k - 1) \o <<")">>

\* an assignment whose right-hand side has 131 nodes (197 tokens)
L_long == <<"b", "=", "1", "+", "1", "+", "(">> \o Nested(4) \o <<")">>

SessionStatements == { L_a5, L_a, L_1div0, L_a7bad, L_a7open }
SessionCommands == { CMD_CLEAR_VARS, CMD_SHOW, CMD_EXIT }

\* a statement or a failing line; malloc of a new Symbol can fail
ServeStatement ==
    /\ Reading
    /\ \E buff \in SessionStatements, mem \in {"plenty", "symbol fails"} :
          Serve(buff, heapView, mem)

\* a command
ServeCommand ==
    /\ Reading
    /\ \E buff \in SessionCommands, view \in FreshViews : Serve(buff, view, "plenty")

\* the long line, read while the token buffer has its first size: the
\* scratch pool fills up and realloc extends it, moves it or fails
ServeLong ==
    /\ Reading
    /\ app.tokSize = TOKEN_BUFFER_SIZE
    /\ \E view \in FreshViews, mem \in {"plenty", "moves", "pool fails"} :
          Serve(L_long, view, mem)

\* the loop ends (-exit or end of input): parser_destroy, whose
\* symbol_table_destroy runs symbol_table_empty
Teardown ==
    /\ Serving
    /\ LET r == symbol_table_empty(table, heapView)
       IN  /\ table' = r.table
           /\ crashed' = (r.ret = "fault")
           /\ out' = [stage |-> "teardown", again |-> ReleasedAgain(table, heapView),
                      symbols |-> Len(AllSymbols(table))]
    /\ lastOp' = "teardown"
    /\ app' = [app EXCEPT !.run = FALSE]
    /\ UNCHANGED <<bindings, heapView, cleared, resizes, nextName, updates, line, reads>>

NextMain == Construct \/ ServeStatement \/ ServeCommand \/ ServeLong \/ Teardown

SpecMain == InitMain /\ [][NextMain]_vars

---------------------------------------------------------------------------
(* The interpreter on generated statement lines and on generated lines of  *)
(* characters: one line is read and processed.                             *)

\* the words picked, in order, with one space between them
RECURSIVE JoinWords(_, _)
JoinWords(words, pick) ==
    IF Len(pick) = 0 THEN <<>>
    ELSE IF Len(pick) = 1 THEN words[pick[1]]
    ELSE words[pick[1]] \o <<" ">> \o JoinWords(words, Tail(pick))

WordLines(words, max) ==
    {JoinWords(words, pick) : pick \in UNION {[1..n -> 1..Len(words)] : n \in 0..max}}

ParseWords == << <<"a">>, <<"2">>, <<"=">>, <<"(">>, <<")">>, <<"+">>, SQRT >>

L_a_b3 == <<"a", " ", "=", " ", "(", "b", " ", "=", " ", "3", ")">>
L_a_2b3 == <<"a", " ", "=", " ", "2", " ", "+", " ", "(", "b", " ", "=", " ", "3", ")">>
L_sqrt_b3 == <<"s", "q", "r", "t", "(", "b", " ", "=", " ", "3", ")">>
L_2_b3 == <<"2", " ", "(", "b", " ", "=", " ", "3", ")">>

ParseLines == WordLines(ParseWords, MaxWords) \cup { L_a_b3, L_a_2b3, L_sqrt_b3, L_2_b3 }

InitParse == \E buff \in ParseLines : InitWith(buff)

SpecParse == InitParse /\ [][NextExpr]_vars

\* every line of up to max characters
CharLines(chars, max) == UNION {[1..n -> chars] : n \in 0..max}

SignChars == {"-", "3", "x", "(", ")", " ", "+"}
ClassChars == {"2", "a", ".", "^", "$", " "}

\* runs of one character about as long as a lexeme may be, alone, after a
\* sign, and after a fractional separator
Run(c, n) == [i \in 1..n |-> c]

RunLengths == (TOKEN_LEXEME_LEN_LIMIT - 1)..(TOKEN_LEXEME_LEN_LIMIT + MaxOver)

LongLines ==
    UNION {{ Run("7", n), Run("x", n), <<"-">> \o Run("7", n),
             <<"(", "-", " ">> \o Run("7", n), <<"7", ".">> \o Run("7", n - 2) }
           : n \in RunLengths}

L_neg3plus4 == <<"-", "3", " ", "+", " ", "4">>
L_negparen3 == <<"-", "(", "3", ")">>

TokLines == CharLines(SignChars, MaxChars) \cup CharLines(ClassChars, MaxChars)
               \cup LongLines \cup { L_neg3plus4, L_negparen3 }

InitTok == \E buff \in TokLines : InitWith(buff)

SpecTok == InitTok /\ [][NextExpr]_vars

---------------------------------------------------------------------------
(* The interpreter on long statements: a head, a sum of balanced nests and *)
(* k times "+1", with as many tokens as the token buffer and the arena     *)
(* hold at first (128), a few fewer and a few more, and with about twice   *)
(* as many.                                                                *)

\* k times "+1"
Sum(k) == [i \in 1..(2 * k) |-> IF i % 2 = 1 THEN "+" ELSE "1"]

ArenaHeads ==
    { <<>>, <<"1", "+">>, SQRT \o <<"(", "1", ")", "+">>, <<"a", "=">>,
      <<"a", "=">> \o SQRT \o <<"(", "1", ")", "+">>, <<"(", "1", ")", "^">>,
      <<"(">>, SQRT \o <<"(", "(", "1", ")", ")", "+">> }

\* sums of 115 and of 245 tokens
ArenaBodies ==
    { <<"(">> \o Nested(3) \o <<")", "+", "(">> \o Nested(1) \o <<")">>,
      <<"(">> \o Nested(4) \o <<")", "+", "(">> \o Nested(2) \o <<")", "+", "(">>
          \o Nested(0) \o <<")">> }

ArenaLines ==
    {head \o body \o Sum(k) : head \in ArenaHeads, body \in ArenaBodies, k \in 0..MaxSum}

InitArena == \E buff \in ArenaLines : InitWith(buff)

SpecArena == InitArena /\ [][NextExpr]_vars

---------------------------------------------------------------------------
(* Properties of the symbol table *)

\* what symbol_table_get returns for a name, against the history, and that
\* it leaves buckets, count and capacity as they were
GetAgreesAndKeeps(name) ==
    LET r == symbol_table_get(table, name, Len(name), heapView)
    IN  /\ IF name \in DOMAIN bindings
           THEN r.ret = "found" /\ r.num = bindings[name]
           ELSE r.ret = "absent"
        /\ r.table = table

\* what symbol_table_get returns for a name, against the history
GetAgrees(name) ==
    LET r == symbol_table_get(table, name, Len(name), heapView)
    IN  IF name \in DOMAIN bindings
        THEN r.ret = "found" /\ r.num = bindings[name]
        ELSE r.ret = "absent"

\* C1: after symbol_table_empty the table answers as an empty one: count is
\* zero (then the number of names inserted since), capacity is the one the
\* table had, and symbol_table_get returns absent for every name not inserted
\* since the clear.
C1_ClearedTableIsEmpty ==
    (cleared > 0 /\ ~crashed) =>
        /\ table.count = Cardinality(DOMAIN bindings)
        /\ table.capacity = SYMBOL_MAP_BASE_SIZE
        /\ \A name \in SmallNames : GetAgrees(name)

\* C4: count is the number of live Symbols reachable through the chains.
C4_CountIsLiveSymbols ==
    ~crashed => table.count = Cardinality(LiveSymbols(table))

\* C2: after any sequence of inserts, updates and the resizes they trigger,
\* symbol_table_get returns the value last inserted for every name inserted
\* and absent for every other name, and changes nothing in the table.
C2_GetReturnsLastInserted ==
    \A i \in 1..(nextName + 1) : GetAgreesAndKeeps(NameOf(i))

\* a lookup ran on a table that was resized after a name was re-assigned
C2_Witness ==
    /\ lastOp = "get"
    /\ resizes >= 1
    /\ updates >= 1
    /\ \E i \in 1..(nextName - 1) : bindings[NameOf(i)] = Num(i + 100)

AllRetrievable == \A i \in 1..nextName : GetAgrees(NameOf(i))

---------------------------------------------------------------------------
(* Properties of the parser and the evaluator *)

\* the tree below node n of the arena, as [lex, kids]
RECURSIVE AstTree(_, _, _, _)
AstTree(nodes, toks, buff, n) ==
    LET node == nodes[n]
        lex == token_adjust_lexeme(toks[node.token], buff)
    IN  IF node.left = NoNode /\ node.right = NoNode THEN [lex |-> lex, kids |-> <<>>]
        ELSE IF node.right = NoNode
        THEN [lex |-> lex, kids |-> <<AstTree(nodes, toks, buff, node.left)>>]
        ELSE [lex |-> lex, kids |-> <<AstTree(nodes, toks, buff, node.left),
                                      AstTree(nodes, toks, buff, node.right)>>]

\* the tree parse builds for a token sequence on its own
ParsedTree(ts, buff) ==
    LET r == parse(TOKEN_BUFFER_SIZE, ts, TOKEN_BUFFER_SIZE)
    IN  IF r.node = NoNode THEN [lex |-> <<>>, kids |-> <<>>]
        ELSE AstTree(r.ps.nodes, ts, buff, r.node)

\* the iteration parsed the whole line as a statement
Accepted(o) ==
    /\ o.stage \in {"result", "evaluate failed"}
    /\ o.head # NoNode
    /\ o.consumed = Len(o.toks)

\* operator tokens of the given types outside every parenthesis
TopOps(ts, types) ==
    {i \in 1..Len(ts) :
        /\ ts[i].type \in types
        /\ Cardinality({j \in 1..(i - 1) : ts[j].type = "LPAR"})
              = Cardinality({j \in 1..(i - 1) : ts[j].type = "RPAR"})}

SetMax(S) == CHOOSE x \in S : \A y \in S : y <= x
SetMin(S) == CHOOSE x \in S : \A y \in S : x <= y

\* The grouping the grammar prescribes for an accepted expression: split at
\* the last + or - outside parentheses, else at the last * / or %, else at
\* the first ^; a parenthesized expression stands for its content and sqrt
\* takes the parenthesized expression as its argument.
RECURSIVE GrammarTree(_, _)
GrammarTree(ts, buff) ==
    LET add == TopOps(ts, {"ADD", "SUB"})
        mul == TopOps(ts, {"MULT", "DIVIDE", "MODULE"})
        pow == TopOps(ts, {"POWER"})
        Split(k) == [lex |-> token_adjust_lexeme(ts[k], buff),
                     kids |-> <<GrammarTree(SubSeq(ts, 1, k - 1), buff),
                                GrammarTree(SubSeq(ts, k + 1, Len(ts)), buff)>>]
    IN  IF add # {} THEN Split(SetMax(add))
        ELSE IF mul # {} THEN Split(SetMax(mul))
        ELSE IF pow # {} THEN Split(SetMin(pow))
        ELSE IF ts[1].type = "LPAR" THEN GrammarTree(SubSeq(ts, 2, Len(ts) - 1), buff)
        ELSE IF ts[1].type = "SQUARE"
        THEN [lex |-> SQRT, kids |-> <<GrammarTree(SubSeq(ts, 3, Len(ts) - 1), buff)>>]
        ELSE [lex |-> token_adjust_lexeme(ts[1], buff), kids |-> <<>>]

\* a chain p1 ^ p2 ^ ... ^ pn of primaries, n >= 2
IsPowerChain(ts) ==
    /\ TopOps(ts, {"ADD", "SUB", "MULT", "DIVIDE", "MODULE", "ASSING"}) = {}
    /\ TopOps(ts, {"POWER"}) # {}

\* C6: the power operator is right-associative: for a chain p1 ^ p2 ^ ... ^ pn
\* of primaries the root is the first ^, its left child is the tree of p1 and
\* its right child is the tree parse builds for p2 ^ ... ^ pn; 2^3^2 is 512.
C6_PowerIsRightAssociative ==
    /\ (reads = 1 /\ Accepted(out) /\ IsPowerChain(out.toks)) =>
          LET k == SetMin(TopOps(out.toks, {"POWER"}))
              root == out.nodes[out.head]
          IN  /\ root.token = k
              /\ AstTree(out.nodes, out.toks, out.text, root.left)
                    = ParsedTree(SubSeq(out.toks, 1, k - 1), out.text)
              /\ AstTree(out.nodes, out.toks, out.text, root.right)
                    = ParsedTree(SubSeq(out.toks, k + 1, Len(out.toks)), out.text)
    /\ (reads = 1 /\ line = L_2pow3pow2) => (out.stage = "result" /\ out.value = Num(512))

C6_Witness ==
    /\ line = L_2pow3pow2
    /\ out.stage = "result"
    /\ IsPowerChain(out.toks)
    /\ Cardinality(TopOps(out.toks, {"POWER"})) = 2
    /\ out.value = Num(512)

\* C7: for every accepted expression the tree groups + - chains and * / %
\* chains to the left, binds * / % tighter than + - and ^ tighter than both,
\* and takes a parenthesized expression as one operand; (2+3)*4 is 20 and
\* sqrt(16) + 2 is 6.
C7_GroupingFollowsGrammar ==
    /\ (reads = 1 /\ Accepted(out) /\ TopOps(out.toks, {"ASSING"}) = {}) =>
          AstTree(out.nodes, out.toks, out.text, out.head) = GrammarTree(out.toks, out.text)
    /\ (reads = 1 /\ line = L_paren) => (out.stage = "result" /\ out.value = Num(20))
    /\ (reads = 1 /\ line = L_sqrt16) => (out.stage = "result" /\ out.value = Num(6))

C7_Witness ==
    /\ line = L_paren
    /\ out.stage = "result"
    /\ Accepted(out)
    /\ out.toks[out.nodes[out.head].token].type = "MULT"
    /\ out.value = Num(20)

\* the remainder of l by r with the sign of l, for tracked l and r, r not 0
Remainder(l, r) ==
    LET ln == l.n * r.d
        rn == Abs(r.n * l.d)
    IN  Rat((IF ln < 0 THEN -1 ELSE 1) * (Abs(ln) % rn), l.d * r.d)

Quotient(l, r) == Rat(l.n * r.d, l.d * r.n)

\* C8: a Modulo node with a non-zero right operand yields the remainder of
\* left by right, a Divide node the quotient, and the values in the slots of
\* the node's children are as the children returned them.
C8_ModuloIsRemainder ==
    (reads = 1 /\ out.stage = "result") =>
        \A i \in 1..Len(out.log) :
            LET e == out.log[i]
            IN  (/\ e.type \in {"DIVIDE", "MODULE"}
                 /\ IsNum(e.lval) /\ IsNum(e.rval) /\ ~IsZero(e.rval)) =>
                    /\ e.value = IF e.type = "DIVIDE" THEN Quotient(e.lval, e.rval)
                                 ELSE Remainder(e.lval, e.rval)
                    /\ out.pool[e.lslot] = e.lval
                    /\ out.pool[e.rslot] = e.rval

ArithmeticTypes == {"ADD", "SUB", "MULT", "DIVIDE", "MODULE", "POWER", "SQUARE"}

\* C9: once a line is parsed, evaluate_expression returns true; a division
\* or modulo by zero, a square root of a negative value, a malformed number
\* and an absent variable give NaN; an arithmetic node with a NaN operand
\* gives NaN.
C9_SoftErrorsGiveNaN ==
    (reads = 1 /\ out.stage \notin {"tokenize failed", "parse failed"}) =>
        /\ out.stage = "result"
        /\ \A i \in 1..Len(out.log) :
              LET e == out.log[i]
                  lexeme == token_adjust_lexeme(out.toks[out.nodes[e.node].token], out.text)
              IN  /\ (e.type \in {"DIVIDE", "MODULE"} /\ IsZero(e.rval)) => IsNaN(e.value)
                  /\ (e.type = "SQUARE" /\ CmpBelowZero(e.lval)) => IsNaN(e.value)
                  /\ (e.type = "NUM" /\ mpfr_set_str(lexeme).status # 0) => IsNaN(e.value)
                  /\ (e.type = "VAR" /\ lexeme \notin DOMAIN bindings) => IsNaN(e.value)
                  /\ (/\ e.type \in ArithmeticTypes
                      /\ (IsNaN(e.lval) \/ (e.rslot # NoSlot /\ IsNaN(e.rval))))
                        => IsNaN(e.value)

\* a decimal string: an optional '-', digits, and optionally '.' or ','
\* followed by digits
IsDecimalString(str) ==
    LET neg == Len(str) > 0 /\ str[1] = "-"
        body == IF neg THEN SubSeq(str, 2, Len(str)) ELSE str
        seps == {i \in 1..Len(body) : body[i] \in {".", ","}}
    IN  /\ Len(body) > 0
        /\ Cardinality(seps) <= 1
        /\ \A i \in (1..Len(body)) \ seps : IsDigit(body[i])
        /\ \A i \in seps : i > 1 /\ i < Len(body)

\* the number a decimal string denotes
DecimalValue(str) ==
    LET neg == str[1] = "-"
        body == IF neg THEN SubSeq(str, 2, Len(str)) ELSE str
        digits == SelectSeq(body, IsDigit)
        seps == {i \in 1..Len(body) : body[i] \in {".", ","}}
        places == IF seps = {} THEN 0 ELSE Len(body) - (CHOOSE i \in seps : TRUE)
    IN  Rat((IF neg THEN -1 ELSE 1) * DigitsValue(digits), Pow10(places))

\* C10: a decimal string tokenizes to exactly one Number token, and the
\* evaluation of that token's adjusted lexeme is the number the string
\* denotes.
C10_DecimalStringsRoundTrip ==
    (reads = 1 /\ IsDecimalString(line)) =>
        /\ out.stage = "result"
        /\ Len(out.toks) = 1
        /\ out.toks[1].type = "NUM"
        /\ mpfr_set_str(token_adjust_lexeme(out.toks[1], out.text)).value = DecimalValue(line)
        /\ out.value = DecimalValue(line)

\* the Symbols of the table that carry a name
SymbolsNamed(t, name) ==
    LET all == AllSymbols(t) IN {i \in 1..Len(all) : all[i].name = name}

\* the name a line assigns to, <<>> when the line is not an assignment
AssignTarget(o) ==
    IF Len(o.toks) >= 2 /\ o.toks[1].type = "VAR" /\ o.toks[2].type = "ASSING"
    THEN token_adjust_lexeme(o.toks[1], o.text) ELSE <<>>

VAR_A == <<"a">>

\* an assignment to a name that was assigned before
ReassignStep ==
    (/\ out'.stage = "result"
     /\ AssignTarget(out') # <<>>
     /\ AssignTarget(out') \in DOMAIN bindings) =>
        LET x == AssignTarget(out')
            g == symbol_table_get(table', x, Len(x), heapView)
        IN  /\ table'.count = table.count
            /\ Cardinality(SymbolsNamed(table', x)) = 1
            /\ g.ret = "found" /\ g.num = out'.value
            /\ (line' = L_aplus1) => (out'.value = MpfrAdd(bindings[VAR_A], Num(1)))
            /\ (line' = L_a2) => (out'.value = Num(2))
            /\ (line' = L_a5) => (out'.value = Num(5))
            /\ (line' = L_ba /\ VAR_A \in DOMAIN bindings) => (out'.value = bindings[VAR_A])

\* a line that reads the name after it was assigned
ReadsAssigned ==
    (out.stage = "result" /\ line = L_a /\ VAR_A \in DOMAIN bindings) =>
        out.value = bindings[VAR_A]

\* C5: assigning to a name that exists updates it in place: the second
\* assignment leaves count as it was and the table holds one Symbol of that
\* name, whose value is the value of the second right-hand side (which may
\* read the name); a later read of the name yields that value.
C5_AssignUpdatesInPlace == [][ReassignStep]_vars /\ []ReadsAssigned

C5_Witness ==
    /\ line = L_aplus1
    /\ out.stage = "result"
    /\ out.value = Num(6)
    /\ table.count = out.countBefore
    /\ Cardinality(SymbolsNamed(table, VAR_A)) = 1


---------------------------------------------------------------------------
(* Properties of the whole program *)

LineStages ==
    {"empty", "command", "tokenize failed", "parse failed", "evaluate failed",
     "crash", "result"}

\* symbol_table_get("last") in the current state and in the next one
LastNow == symbol_table_get(table, LAST, 4, heapView)
LastNext == symbol_table_get(table', LAST, 4, heapView')

\* C11: after every line whose evaluation succeeds symbol_table_get("last")
\* returns that line's result, and it returns the same value after every
\* command and every failing line that follows, until the next line that
\* evaluates.
C11_LastHoldsLatestResult ==
    [][ (lastOp' = "line" /\ ~crashed') =>
           /\ out'.stage = "result" =>
                 (LastNext.ret = "found" /\ LastNext.num = out'.value)
           /\ (out'.stage # "result" /\ lastOp = "line" /\ LastNow.ret = "found") =>
                 (LastNext.ret = "found" /\ LastNext.num = LastNow.num) ]_vars

\* C12: evaluate_expression runs for a line only after tokenize returned
\* true and parse returned a root for that line: when a node was evaluated
\* or a pool slot handed out, the tokens are those of the whole line and the
\* root is the one parse returns for them; a line whose tokenize or parse
\* fails leaves no node evaluated.
C12_EvaluatedOnlyAfterTokenizeAndParse ==
    (out.stage \in LineStages /\ (out.log # <<>> \/ out.pool # <<>>)) =>
        /\ out.stage \in {"result", "evaluate failed", "crash"}
        /\ tokenize(TOKEN_BUFFER_SIZE, out.text).ok
        /\ tokenize(TOKEN_BUFFER_SIZE, out.text).toks = out.toks
        /\ out.head # NoNode
        /\ parse(app.arenaSize, out.toks, app.tokSize).node = out.head
        /\ \A i \in 1..Len(out.log) : out.log[i].node \in 1..Len(out.nodes)

\* a line that failed to parse after lines that evaluated: nothing of it was
\* evaluated
C12_Witness ==
    /\ out.stage = "parse failed"
    /\ Len(out.toks) > 0
    /\ out.log = <<>>
    /\ LAST \in DOMAIN bindings

SessionNames == { <<"a">>, <<"b">>, LAST }

\* C13: a line that fails (tokenize, parse or evaluate_expression, a refused
\* growth of the scratch pool or a refused Symbol included) leaves every
\* binding as it was: symbol_table_get returns for every name what it
\* returned before the line, which is the value last assigned as long as
\* nothing was cleared.
C13_FailedLineKeepsBindings ==
    [][ (lastOp' = "line"
            /\ out'.stage \in {"tokenize failed", "parse failed", "evaluate failed"}) =>
           /\ ~crashed'
           /\ bindings' = bindings
           /\ \A name \in SessionNames :
                 /\ symbol_table_get(table', name, Len(name), heapView').ret
                       = symbol_table_get(table, name, Len(name), heapView).ret
                 /\ symbol_table_get(table', name, Len(name), heapView').num
                       = symbol_table_get(table, name, Len(name), heapView).num
                 /\ (cleared = 0 /\ name \in DOMAIN bindings) =>
                       /\ symbol_table_get(table', name, Len(name), heapView').ret = "found"
                       /\ symbol_table_get(table', name, Len(name), heapView').num
                             = bindings[name] ]_vars

\* the growth of the scratch pool was refused in the middle of an assignment
\* while the table held bindings
C13_Witness ==
    /\ out.stage = "evaluate failed"
    /\ Len(out.pool) >= MPRF_BUFFER_SIZE
    /\ <<"a">> \in DOMAIN bindings
    /\ LAST \in DOMAIN bindings

\* C14: over a run, teardown included, every Symbol is released exactly
\* once: no symbol_table_empty call releases a Symbol that was released
\* before, and after the teardown no Symbol is left unreleased.
C14_SymbolsReleasedOnce ==
    (out.stage \in {"command", "teardown"} /\ ~crashed) =>
        /\ out.again = 0
        /\ out.stage = "teardown" => LiveSymbols(table) = {}

\* the blocks of a sequence, as a set
Blocks(seq) == {seq[i] : i \in DOMAIN seq}

\* C15: when one of parser_create's requests is refused, parser_create
\* returns null having released each block it was granted exactly once, and
\* not the caller's token buffer, which main then releases.
C15_FailedCreateReleasesAll ==
    out.stage = "create failed" =>
        /\ Blocks(out.byParser) = Blocks(out.granted)
        /\ Len(out.byParser) = Cardinality(Blocks(out.byParser))
        /\ "TokenBuffer" \notin Blocks(out.byParser)
        /\ Cardinality({i \in DOMAIN out.byMain : out.byMain[i] = "TokenBuffer"}) = 1
        /\ lastOp = "return"

\* the last request, for the scratch-pool array, was refused
C15_Witness ==
    /\ out.stage = "create failed"
    /\ out.refused = "buffer"
    /\ Len(out.granted) = 5

---------------------------------------------------------------------------
(* Properties of the parser on statements, and of the tokenizer *)

\* parse returned a root for the line
ParseReturned == out.stage \in {"result", "evaluate failed"}

\* tokenize returned true for the line
Tokenized == out.stage \in {"parse failed", "evaluate failed", "crash", "result"}

NodeType(n) == out.toks[out.nodes[n].token].type

CountOf(ts, type, lo, hi) == Cardinality({k \in lo..hi : ts[k].type = type})

\* the '(' at position j of the tokens has its matching ')'
Closed(ts, j) ==
    \E m \in (j + 1)..Len(ts) : CountOf(ts, "RPAR", j + 1, m) > CountOf(ts, "LPAR", j + 1, m)

\* the '(' at position j is still open at position k
OpenAt(ts, j, k) ==
    \A m \in (j + 1)..(k - 1) : CountOf(ts, "RPAR", j + 1, m) <= CountOf(ts, "LPAR", j + 1, m)

\* C16: in an AST parse returned, an Assign node is the root and its left
\* child a Variable leaf; the root is an Assign node exactly when the first
\* two tokens are an identifier and '='; no other '=' is among the tokens
\* parse consumed; and parse fails for every statement with a '(' that is
\* still open at an '=' (as in a = (b = 3)).
C16_AssignOnlyAtRoot ==
    /\ ParseReturned =>
          /\ \A n \in 1..Len(out.nodes) :
                NodeType(n) = "ASSING" =>
                    /\ n = out.head
                    /\ out.nodes[n].left # NoNode
                    /\ NodeType(out.nodes[n].left) = "VAR"
                    /\ out.nodes[out.nodes[n].left].left = NoNode
                    /\ out.nodes[out.nodes[n].left].right = NoNode
          /\ (NodeType(out.head) = "ASSING") <=>
                (/\ Len(out.toks) >= 2
                 /\ out.toks[1].type = "VAR"
                 /\ out.toks[2].type = "ASSING")
          /\ \A k \in 1..out.consumed : out.toks[k].type = "ASSING" => k = 2
    /\ Tokenized =>
          \A j \in 1..Len(out.toks), k \in 1..Len(out.toks) :
              (/\ j < k
               /\ out.toks[j].type = "LPAR"
               /\ out.toks[k].type = "ASSING"
               /\ OpenAt(out.toks, j, k)) => out.stage = "parse failed"
    /\ (reads = 1 /\ line \in {L_a_b3, L_a_2b3, L_sqrt_b3}) => out.stage = "parse failed"

\* C17: parse fails, and nothing is evaluated, for every token sequence with
\* a '(' that has no matching ')' or with a sqrt that is not followed by '('.
C17_UnclosedIsRejected ==
    Tokenized =>
        ((\/ \E j \in 1..Len(out.toks) :
                out.toks[j].type = "LPAR" /\ ~Closed(out.toks, j)
          \/ \E j \in 1..Len(out.toks) :
                /\ out.toks[j].type = "SQUARE"
                /\ (j = Len(out.toks) \/ out.toks[j + 1].type # "LPAR"))
            => (out.stage = "parse failed" /\ out.log = <<>>))

\* the length of the digit run that starts at position s
DigitRunAt(text, s) == RunEnd(text, s, IsDigit) - s

\* a '-' stands before position s, with only blanks in between
SignBefore(text, s) ==
    \E p \in 1..(s - 1) : text[p] = "-" /\ \A q \in (p + 1)..(s - 1) : text[q] = " "

AfterOperand(ts, i) == i > 1 /\ ts[i - 1].type \in {"NUM", "VAR", "RPAR"}

\* C18: a Sub token is emitted for a '-' exactly when the token before it is
\* a Number, a Variable or a closing parenthesis; every other '-' gives one
\* Number token flagged negative that starts at the digit run after the '-'
\* (and the blanks after it), the next token starting after that run; every
\* '-' of the line gives one or the other.
C18_MinusIsSubAfterOperand ==
    Tokenized =>
        /\ \A i \in 1..Len(out.toks) :
              out.toks[i].type = "SUB" => AfterOperand(out.toks, i)
        /\ \A i \in 1..Len(out.toks) :
              (out.toks[i].type = "NUM" /\ out.toks[i].negative) =>
                  /\ ~AfterOperand(out.toks, i)
                  /\ SignBefore(out.text, out.toks[i].start)
                  /\ (i < Len(out.toks) /\ out.toks[i + 1].type \in {"NUM", "VAR"}) =>
                        out.toks[i + 1].start >=
                            out.toks[i].start + DigitRunAt(out.text, out.toks[i].start)
        /\ Cardinality({p \in 1..Len(out.text) : out.text[p] = "-"})
              = Cardinality({i \in 1..Len(out.toks) :
                                \/ out.toks[i].type = "SUB"
                                \/ out.toks[i].type = "NUM" /\ out.toks[i].negative})

\* a line with a binary minus and, right after it, a minus that is a sign
\* (as in 3--3)
C18_Witness ==
    /\ Tokenized
    /\ \E i \in 2..(Len(out.toks) - 1) :
          /\ out.toks[i].type = "SUB"
          /\ out.toks[i - 1].type \in {"NUM", "VAR", "RPAR"}
          /\ out.toks[i + 1].type = "NUM"
          /\ out.toks[i + 1].negative
          /\ out.toks[i + 1].len = 1

\* the number of characters of the run a Number or Variable token stands for
RunLength(text, tok) ==
    IF tok.negative THEN DigitRunAt(text, tok.start)
    ELSE IF tok.type = "NUM" THEN ScanNumber(text, tok.start, FALSE) - tok.start
    ELSE RunEnd(text, tok.start, IsNameChar) - tok.start

\* the line has a digit run or a letter run longer than the limit
HasLongRun(text) ==
    \E p \in 1..Len(text) :
        \/ RunEnd(text, p, IsDigit) - p > TOKEN_LEXEME_LEN_LIMIT
        \/ RunEnd(text, p, IsNameChar) - p > TOKEN_LEXEME_LEN_LIMIT

\* C19: when tokenize returns true every Number and Variable token has the
\* length of its run, at most 255; tokenize returns false for every line
\* with a digit run or a letter run of more than 255 characters, after a
\* unary minus or not.
C19_LengthsAreCapped ==
    /\ Tokenized =>
          \A i \in 1..Len(out.toks) :
              out.toks[i].type \in {"NUM", "VAR"} =>
                  /\ out.toks[i].len = RunLength(out.text, out.toks[i])
                  /\ out.toks[i].len <= TOKEN_LEXEME_LEN_LIMIT
    /\ (out.stage \in LineStages \ {"empty", "command"} /\ HasLongRun(out.text)) =>
          out.stage = "tokenize failed"

\* the one-character operators the claim lists
ListedOperators == {"=", "+", "-", "/", "%", "*", "(", ")", "[", "]", ","}

\* the character at position p is whitespace, a digit, a fractional
\* separator right after a digit, a letter or underscore, or an operator
InClass(text, p, operators) ==
    \/ IsSpace(text[p])
    \/ IsDigit(text[p])
    \/ IsNameChar(text[p])
    \/ text[p] \in operators
    \/ text[p] \in {".", ","} /\ p > 1 /\ IsDigit(text[p - 1])

\* tokenize returns false for a line with a character outside the classes
RejectsOutside(operators) ==
    (/\ out.stage \in LineStages \ {"empty", "command"}
     /\ \E p \in 1..Len(out.text) : ~InClass(out.text, p, operators))
        => out.stage = "tokenize failed"

\* C20: tokenize returns false for every line with a character that is not
\* whitespace, a digit, a fractional separator in a digit run, an ASCII
\* letter or underscore, or one of the operators = + - / % * ( ) [ ] , ^
C20_RejectsOtherCharacters == RejectsOutside(ListedOperators \cup {"^"})

\* C20 as stated, with the operators = + - / % * ( ) [ ] , only
C20_RejectsAllButListed == RejectsOutside(ListedOperators)

\* a '$' after a token: tokenize returned false
C20_Witness ==
    /\ out.stage = "tokenize failed"
    /\ Len(out.toks) > 0
    /\ \E p \in 1..Len(out.text) : out.text[p] = "$"

---------------------------------------------------------------------------
(* Properties of the remaining contracts *)

\* the Symbol of the name is chained in the bucket its hash selects under
\* the capacity of the table
InOwnBucket(t, name) ==
    \E i \in 1..Len(t.buckets[HashMod(hash_string(name, Len(name)), t.capacity)]) :
        t.buckets[HashMod(hash_string(name, Len(name)), t.capacity)][i].name = name

C22_ArenaHoldsCountPlusOne ==
    Tokenized => app.arenaSize >= Len(out.toks) + 1

\* C26: in every parse the number of nodes created is at most the number of
\* tokens consumed, which is at most the token count, which is at most the
\* arena capacity; no write of consume went outside the arena and no node
\* creation found the arena full.
C26_CursorsStayInsideArena ==
    Tokenized =>
        /\ Len(out.nodes) <= out.consumed
        /\ out.consumed <= Len(out.toks)
        /\ Len(out.toks) <= app.arenaSize
        /\ ~out.oob
        /\ Len(out.nodes) < app.arenaSize \/ out.head # NoNode
        /\ out.stage # "crash"

\* a statement of as many tokens as the arena has nodes was parsed to its
\* last token; and one after which the arena was grown
C26_Witness ==
    /\ Tokenized
    /\ out.head # NoNode
    /\ out.consumed = Len(out.toks)
    /\ \/ Len(out.toks) = TOKEN_BUFFER_SIZE /\ app.arenaSize = TOKEN_BUFFER_SIZE
       \/ Len(out.nodes) > TOKEN_BUFFER_SIZE /\ app.arenaSize = 2 * TOKEN_BUFFER_SIZE

\* evaluate_expression was called for the line
Evaluated == out.stage \in {"evaluate failed", "crash", "result"} /\ out.head # NoNode

\* a call that returned after the pool had grown used a slot pointer it held
\* from before: its own result slot or one a child returned
UsesEarlierSlot ==
    \E i \in 1..Len(out.log), j \in 1..Len(out.log) :
        /\ i < j
        /\ out.log[i].slot > MPRF_BUFFER_SIZE
        /\ {out.log[j].slot, out.log[j].lslot, out.log[j].rslot}
              \cap 1..MPRF_BUFFER_SIZE # {}

\* C23: every slot pointer an evaluate_node call holds designates a slot of
\* the live pool when it is read or written, also after realloc gave the
\* pool a new block during the evaluation of a descendant or sibling.
C23_SlotReferencesStayLive ==
    (Evaluated /\ out.moved) => (~UsesEarlierSlot /\ out.stage # "crash")

\* the token kinds evaluate_node has a case for
BinaryTypes == {"ADD", "SUB", "DIVIDE", "MODULE", "MULT", "POWER"}
EvaluatedTypes == {"NUM", "VAR", "SQUARE", "ASSING"} \cup BinaryTypes

\* every node of the arena has a kind evaluate_node supports and the
\* children its case dereferences
WellFormedNodes ==
    \A n \in 1..Len(out.nodes) :
        /\ NodeType(n) \in EvaluatedTypes
        /\ NodeType(n) \in BinaryTypes \cup {"ASSING"} =>
              (out.nodes[n].left # NoNode /\ out.nodes[n].right # NoNode)
        /\ NodeType(n) = "SQUARE" => out.nodes[n].left # NoNode

Bound(t, name) ==
    [ret |-> symbol_table_get(t, name, Len(name), heapView).ret,
     num |-> symbol_table_get(t, name, Len(name), heapView).num]

\* the name an Assign root assigns to: the lexeme of its left child's token
TargetOf(o) ==
    token_adjust_lexeme(o.toks[o.nodes[o.nodes[o.head].left].token], o.text)

\* evaluate_expression returned for the line read in this step
EvaluationReturned ==
    /\ lastOp' = "line"
    /\ out'.stage \in {"result", "evaluate failed"}
    /\ out'.head # NoNode

\* C25: evaluate_expression changes at most one binding.  When the root is
\* an Assign node only the name of its left child is bound anew, to the
\* value of the right child, which is the result returned, and every other
\* name keeps what it was bound to; when the root is no Assign node the
\* table is left as it was: every chain, count and capacity.
C25_AtMostOneBindingChanges ==
    [][EvaluationReturned =>
          IF out'.toks[out'.nodes[out'.head].token].type = "ASSING"
          THEN /\ \A name \in SessionNames \ {TargetOf(out')} :
                     Bound(out'.evaluated, name) = Bound(table, name)
               /\ out'.stage = "result" =>
                     /\ Bound(out'.evaluated, TargetOf(out')).ret = "found"
                     /\ Bound(out'.evaluated, TargetOf(out')).num = out'.value
                     /\ out'.value = out'.log[Len(out'.log)].rval
               /\ out'.evaluated.count \in {table.count, table.count + 1}
          ELSE out'.evaluated = table]_vars

\* a = 5 was evaluated while another name was bound: a is new in the table
\* and bound to 5
C25_Witness ==
    /\ lastOp = "line"
    /\ out.stage = "result"
    /\ out.text = L_a5
    /\ out.countBefore >= 1
    /\ out.evaluated.count = out.countBefore + 1
    /\ Bound(out.evaluated, <<"a">>) = [ret |-> "found", num |-> Num(5)]

\* C27: parse returns a root only when every token was consumed: a statement
\* with tokens left over after a complete expression is a parse failure.
C27_RootOnlyWhenAllConsumed ==
    (Tokenized /\ out.head # NoNode) => out.consumed = Len(out.toks)

\* C28: every Number token of a successful tokenize covers at least one
\* digit: it has a length of at least 1 and starts at a digit.
C28_NumberTokensHaveDigits ==
    Tokenized =>
        \A i \in 1..Len(out.toks) :
            out.toks[i].type = "NUM" =>
                /\ out.toks[i].len >= 1
                /\ IsDigit(CharAt(out.text, out.toks[i].start))

\* C29: a line that starts with '-' and is no command is tokenized, parsed
\* and evaluated over its whole text: the buffer is as it was read, so that
\* -3 + 4 evaluates to 1.
C29_FailedLookupKeepsBuffer ==
    (reads = 1 /\ out.stage \in LineStages \ {"empty", "command"}
        /\ line[1] = "-") =>
        /\ out.text = line
        /\ line = L_neg3plus4 => (out.stage = "result" /\ out.value = Num(1))

\* C30: for every token of a successful tokenize token_adjust_lexeme writes
\* at most TOKEN_LEXEME_LEN_LIMIT bytes into bufferNames, the terminator
\* included.
C30_LexemeFitsBuffer ==
    Tokenized =>
        \A i \in 1..Len(out.toks) :
            AdjustedBytes(out.toks[i], out.text) <= TOKEN_LEXEME_LEN_LIMIT

================================================================
